---- MODULE Spec2Model ----
(***************************************************************************)
(* Model of the code-index server: the project index kept in the global   *)
(* file_index, its pickle under the per-project settings directory, the   *)
(* change tracker (IncrementalIndexer) with its metadata.db rows, and the  *)
(* request handlers of server.py that build, refresh, persist and load    *)
(* them.                                                                   *)
(***************************************************************************)
EXTENDS Integers, Sequences, FiniteSets, TLC

\* ------------------------------------------------------------------ bounds
\* number of filesystem mutations the environment performs
MaxFsOps == 1
\* the refresh_index requests that may be in flight at once
RefreshIds == {1, 2}

\* ------------------------------------------------------- names and paths
\* absolute project path handed to set_project_path
Project == "/proj"

\* project-relative paths are sequences of path components
MainPy == <<"main.py">>
HelperPy == <<"utils", "helper.py">>
ConfigJson == <<"config.json">>
NotesTxt == <<"notes.txt">>
DotEnvPy == <<".env.py">>

\* files that may exist under the project root
AllFiles == {MainPy, HelperPy, ConfigJson, NotesTxt, DotEnvPy}
\* files the environment appends to, and files it deletes and re-creates
AppendedFiles == {MainPy}
RemovableFiles == {HelperPy, ConfigJson}

\* server.py: supported_extensions
supported_extensions ==
    {".py", ".js", ".ts", ".jsx", ".tsx", ".java", ".c", ".cpp", ".h", ".hpp",
     ".cs", ".go", ".rb", ".php", ".swift", ".kt", ".rs", ".scala", ".sh",
     ".bash", ".html", ".css", ".scss", ".md", ".json", ".xml", ".yml",
     ".yaml", ".zig", ".vue", ".svelte", ".mjs", ".cjs", ".less", ".sass",
     ".stylus", ".styl", ".hbs", ".handlebars", ".ejs", ".pug", ".astro",
     ".mdx", ".sql", ".ddl", ".dml", ".mysql", ".postgresql", ".psql",
     ".sqlite", ".mssql", ".oracle", ".ora", ".db2", ".proc", ".procedure",
     ".func", ".function", ".view", ".trigger", ".index", ".migration",
     ".seed", ".fixture", ".schema", ".cql", ".cypher", ".sparql", ".gql",
     ".liquibase", ".flyway"}

\* os.path.basename / os.path.dirname of a relative path
basename(parts) == parts[Len(parts)]
dirname(parts) == SubSeq(parts, 1, Len(parts) - 1)

\* os.path.splitext(file)[1] for the file names of the model
splitext(file) ==
    CASE file = "main.py" -> ".py"
      [] file = "helper.py" -> ".py"
      [] file = "config.json" -> ".json"
      [] file = "notes.txt" -> ".txt"
      [] file = ".env.py" -> ".py"
      [] OTHER -> ""

\* file.startswith('.')
startswith_dot(file) == file \in {".env.py"}

\* a path as the code passes it around: relative to a root ("" = relative)
RelPath(parts) == [root |-> "", parts |-> parts]
\* os.path.join(base_path, file_path)
join(base, parts) == [root |-> base, parts |-> parts]

\* ------------------------------------------------------------ file system
\* sizes of the files as test_server.py (TEST_FILES) writes them; the two
\* files that are never indexed are given some size
InitSize(parts) ==
    CASE parts = MainPy -> 102
      [] parts = HelperPy -> 71
      [] parts = ConfigJson -> 56
      [] OTHER -> 10

\* os.stat(path): the record of an existing file, or "missing" (OSError)
Missing == [mtime |-> -1, size |-> -1]
stat(fsv, path) ==
    IF path.root = Project /\ path.parts \in DOMAIN fsv
    THEN fsv[path.parts] ELSE Missing

\* ---------------------------------------------------------------- indexer
\* the walk of _index_project: hidden files and unsupported extensions are
\* skipped; the default ignore patterns and size limits do not match any
\* file of the model
Walk(fsv) ==
    {p \in DOMAIN fsv :
        /\ ~startswith_dot(basename(p))
        /\ splitext(basename(p)) \in supported_extensions}

\* IncrementalIndexer.has_file_changed(file_path)
has_file_changed(file_metadata, fsv, path) ==
    IF path \notin DOMAIN file_metadata THEN TRUE
    ELSE LET current_stat == stat(fsv, path)
             stored == file_metadata[path]
         IN  IF current_stat = Missing THEN TRUE
             ELSE \/ current_stat.mtime # stored.mtime
                  \/ current_stat.size # stored.size

\* IncrementalIndexer.get_changed_files(base_path, current_files)
added_files(file_metadata, current) ==
    {p \in current : RelPath(p) \notin DOMAIN file_metadata}
modified_files(file_metadata, fsv, base, current) ==
    {p \in current : /\ RelPath(p) \in DOMAIN file_metadata
                     /\ has_file_changed(file_metadata, fsv, join(base, p))}
deleted_files(file_metadata, current) ==
    {k.parts : k \in {k \in DOMAIN file_metadata : k.parts \notin current}}

\* IncrementalIndexer.clean_deleted_files(deleted_files)
clean_deleted_files(file_metadata, deleted) ==
    [k \in {k \in DOMAIN file_metadata : k.parts \notin deleted}
        |-> file_metadata[k]]

\* changed_files as a refresh that forgets the modified files would compute it
changed_files_added_only(added, modified) == added

\* changed_files = added_files + modified_files
changed_files(added, modified) == added \cup modified

\* one entry of the index tree, as the merge loop writes it
Leaf(parts) == [type |-> "file", path |-> parts,
                ext |-> splitext(basename(parts))]

\* the merge of a set of indexed files into the tree: the nested dict is
\* keyed by the components of the path, so a path holds one entry
merge(tree, files) ==
    {l \in tree : l.path \notin files} \cup {Leaf(p) : p \in files}

\* the paths held by a tree; _count_files(tree)
TreePaths(tree) == {l.path : l \in tree}
_count_files(tree) == Cardinality(TreePaths(tree))

\* IncrementalIndexer.update_file_metadata for a set of merged files:
\* get_file_metadata returns {} when os.stat fails and nothing is stored
update_file_metadata(file_metadata, fsv, base, files) ==
    LET ok == {p \in files : stat(fsv, join(base, p)) # Missing}
        keys == DOMAIN file_metadata \cup {RelPath(p) : p \in ok}
    IN  [k \in keys |->
            IF k.parts \in ok THEN stat(fsv, join(base, k.parts))
            ELSE file_metadata[k]]

\* OptimizedProjectSettings.save_metadata on the sqlite backend: one
\* INSERT OR REPLACE per key of the map
save_metadata(db, file_metadata) ==
    [k \in DOMAIN db \cup DOMAIN file_metadata |->
        IF k \in DOMAIN file_metadata THEN file_metadata[k] ELSE db[k]]

\* ------------------------------------------------------- persisted index
NoFile == [state |-> "none", data |-> {}]
Truncated == [state |-> "truncated", data |-> {}]
Pickle(tree) == [state |-> "ok", data |-> tree]

EmptyMeta == [k \in {} |-> Missing]

VARIABLES
    fs,          \* files under the project root: parts -> [mtime, size]
    fsOps,       \* filesystem mutations so far (the mtime clock)
    base_path,   \* ctx.base_path
    file_count,  \* ctx.file_count
    file_index,  \* the global in-memory index tree
    index_file,  \* file_index.pickle of each settings directory
    metadata_db, \* rows of the project's metadata.db
    rf,          \* the refresh_index coroutines
    shut,        \* the last clean shutdown, until a project is set again
    last,        \* outcome of the most recent handler step
    trackers,    \* ProgressManager.trackers, by the name of the local
                 \* variable that holds the tracker in refresh_index
    global_handlers, \* ProgressManager.global_handlers is not empty
    pool,        \* the tasks handed to the ThreadPoolExecutor
    clock,       \* time.time() as the progress tracker reads it
    delivery,    \* the lock of `progress_tracker` and the event loop's thread
    cache,       \* LRUCache._cache: the OrderedDict, oldest entry first
    capacity,    \* LRUCache.capacity
    disk,        \* the persistence file of the PersistentLRUCache
    now,         \* time.time() as the cache reads it
    threads,     \* the threads calling get and put on the cache
    lock,        \* LRUCache._lock: the thread holding it, or 0
    compact,     \* _compact_persistence_file: its position and the .backup file
    changes,     \* FileChangeTracker: the version store, the indexer's metadata
                 \* and the file being edited
    settings,    \* OptimizedProjectSettings: its storage backends
    ignore,      \* IgnorePatternMatcher: the patterns and the path tested
    history,     \* the puts, and the order of use, in mutex order
    query_cache, \* LazyContentManager.query_cache.cache, oldest entry first
    search,      \* the search_code_advanced request in flight
    multi,       \* the multi-pattern search in flight
    lazy,        \* the holders of the LazyContentManager and their readers
    governor,    \* the MemoryProfiler, its hooks and the spill directory
    access       \* the file request being served

\* the index, its persistence and the refresh requests
indexVars == <<fs, fsOps, base_path, file_count, file_index, index_file,
               metadata_db, rf, shut, last>>
\* the progress trackers and their worker pools
operationVars == <<trackers, global_handlers, pool, clock, delivery>>
\* the LRU cache
cacheVars == <<cache, capacity, disk, now, threads, lock, history, compact>>

\* the result cache of search_code_advanced and the request in flight
searchVars == <<query_cache, search>>
\* everything outside the index, the trackers and the LRU cache
serviceVars == <<searchVars, multi, lazy, governor, access>>

\* the change tracker, the project settings and the ignore patterns
storeVars == <<changes, settings, ignore>>

vars == <<indexVars, operationVars, cacheVars, serviceVars, storeVars>>
\* ------------------------------------------------------ state of a request
\* a refresh_index coroutine that is not running
IdleRf == [pc |-> "idle", file_metadata |-> EmptyMeta, current |-> {},
           added |-> {}, modified |-> {}, deleted |-> {}, truly |-> {},
           tasks |-> {}, file_count |-> 0, cancelled |-> FALSE,
           previous |-> NoFile]

\* no clean shutdown with a tree in memory since the last set_project_path
NoShutdown == [clean |-> FALSE, tree |-> {}]

\* the outcome record of a handler step
Outcome(op) == [op |-> op, files |-> 0, current |-> {}, added |-> {},
                modified |-> {}, deleted |-> {}, truly |-> {},
                status |-> "none", fresh |-> FALSE, shut |-> NoShutdown,
                previous |-> NoFile, completion |-> {}]

\* the paths of the tracker whose stored (mtime, size) differs from the file
TrulyModified(file_metadata, fsv, base, current) ==
    {p \in current :
        /\ RelPath(p) \in DOMAIN file_metadata
        /\ LET s == stat(fsv, join(base, p))
           IN  \/ s.mtime # file_metadata[RelPath(p)].mtime
               \/ s.size # file_metadata[RelPath(p)].size}

\* a handler runs to its next suspension without interleaving; the only
\* handler state between two steps of the model that is not a suspension
\* is a refresh inside save_index, between open() and the end of dump()
NoHandlerRunning == \A i \in RefreshIds : rf[i].pc # "dumping"

\* ------------------------------------------------- progress tracker data
\* the trackers of one operation: refresh_index creates `tracker` with
\* create_tracker and `progress_tracker` with ProgressContext,
\* force_reindex only the latter
OpIds == {"tracker", "progress_tracker"}
\* bound: time steps of the tracker's clock
MaxClock == 2
\* numbers of files found by the scan, and numbers of update_progress calls
\* in one stretch of the body
FileCounts == {0, 1, 2}
UpdateCounts == {0, 1}
\* ParallelIndexer.max_workers
max_workers == 4
\* total_items as refresh_index and force_reindex create their trackers
InitialTotal == 1000

\* an operation id without a tracker
NoTracker == [status |-> "none", items_processed |-> 0, total_items |-> 0,
              token |-> FALSE, start_time |-> 0, handler |-> FALSE,
              cleanup_tasks |-> FALSE, body |-> "none", log |-> <<>>,
              calls |-> 0]

\* a tracker deleted from the registry
Removed == [NoTracker EXCEPT !.status = "removed"]

\* ProgressTracker.__init__
ProgressTracker(total_items, handler, t) ==
    [NoTracker EXCEPT !.status = "pending", !.total_items = total_items,
                      !.start_time = t, !.handler = handler]

\* no task submitted to the executor
EmptyPool == [queued |-> 0, running |-> 0, done |-> 0]

\* the progress manager of a server that has run no operation
\* ProgressTracker.__init__ of `progress_tracker`: _lock is free and
\* current_stage_index is 0; the thread of the event loop is running
NoDelivery == [holder |-> "none", current_stage_index |-> 0,
               blocked |-> FALSE]

OperationsIdle ==
    /\ trackers = [i \in OpIds |-> NoTracker]
    /\ pool = EmptyPool
    /\ clock = 0
    /\ delivery = NoDelivery

\* ---------------------------------------------------------- LRU cache data
\* bound: time steps of the cache's clock
MaxNow == 2
\* the threads calling the cache, and the keys and values they use
ThreadIds == {1, 2}
Keys == {"a", "b", "c"}
\* capacities a cache is constructed with
Capacities == {1, 2}
\* LRUCache.__init__: the default ttl_seconds
ttl_seconds == 3600
\* the arguments of the put calls, (key, value, ttl): one key is put with two
\* values; the ttl is a short one or the default (ttl None)
Puts == {<<"a", "v1", 1>>, <<"a", "v2", ttl_seconds>>,
         <<"b", "v1", 1>>, <<"c", "v1", ttl_seconds>>}

\* what get returns for an absent key
None == "None"

\* a thread that is not inside a call
IdleThread == [pc |-> "idle", op |-> "none", key |-> "a", value |-> None,
               ttl |-> ttl_seconds, result |-> None, expired |-> FALSE]

\* no persistence file
NoDisk == [exists |-> FALSE, entries |-> <<>>]

\* nothing put, nothing used, nothing evicted
NoHistory == [latest |-> [k \in Keys |-> None], recency |-> <<>>,
              overflow |-> FALSE, evicted |-> {}, oldest |-> None]

\* ------------------------------------------------------ change tracker data
\* bound: the ids uuid4 hands out (versions and diffs), which also count
\* the readings of the clock
MaxIds == 6
\* the contents the edited file takes; "" is the empty file
Contents == {"", "a", "b"}
\* version ids a caller of the storage API passes: None (0), ids of versions
\* it stores and one that is never stored
VersionIds == {0, 1, 99}
\* bound: calls of the storage API
MaxInserts == 3

\* a change tracker that has recorded nothing, on a file that exists and has
\* no entry in IncrementalIndexer.file_metadata.  foreign_keys is the
\* setting of a new connection (SQLite's compiled-in default; no PRAGMA is
\* executed) and pc the position of the edit session.  Version id 0 stands
\* for None: no 'current_version_id' key, or a NULL previous_version_id
NoChanges == [file_versions |-> {}, file_diffs |-> {},
              file_metadata |-> [present |-> FALSE,
                                 current_version_id |-> 0],
              exists |-> TRUE, content |-> "a",
              pc |-> "idle", old_content |-> None, new_content |-> "",
              ids |-> 0, foreign_keys |-> FALSE]

\* the keys and values of the dictionaries saved through the settings
SettingKeys == {"a", "b"}
SettingValues == {"v1", "v2"}
EmptyDict == [k \in {} |-> "v1"]
Dicts ==
    UNION {[keyset -> SettingValues] : keyset \in SUBSET SettingKeys}

\* OptimizedProjectSettings constructed with the 'memory' backend: the
\* storages are empty dicts.  kind tells a SQLiteStorage from a dict, rows
\* is the kv_store table or the dict, saved_* what the save calls so far
\* have been given (later values over earlier ones), last the latest call
NoSettings == [storage_backend |-> "memory", failed |-> FALSE,
               metadata_storage |-> [kind |-> "dict", rows |-> EmptyDict],
               cache_storage |-> [kind |-> "dict", rows |-> EmptyDict],
               saved_metadata |-> EmptyDict, saved_cache |-> EmptyDict,
               last |-> [op |-> "none",
                         returned |-> EmptyDict]]
\* bound: lines of the project's .gitignore
MaxIgnoreLines == 2
\* A pattern line is the sequence of its parts: an optional "!", an optional
\* leading "/", a name or glob, an optional trailing "/".
IgnoreLines == {<<"build">>, <<"!", "build">>, <<"!", "/", "build", "/">>,
                <<"*.log">>, <<"!", "debug.log">>, <<"src", "/">>,
                <<"!", ".cache">>}
\* the paths tested, relative to the project root, by their components
IgnorePaths == {<<"build">>, <<"src", "Build">>, <<"src">>,
                <<"logs", "debug.log">>, <<".cache">>, <<"docs">>}

\* a matcher of a project without .gitignore that has tested no path
NoIgnore == [patterns |-> <<>>,
             last |-> [op |-> "none", path |-> <<"docs">>,
                       result |-> FALSE]]

\* the change tracker, the settings and the matcher are not used
StoresIdle ==
    /\ changes = NoChanges
    /\ settings = NoSettings
    /\ ignore = NoIgnore

\* no compaction in progress and no .backup file
NoCompact == [pc |-> "idle", backup |-> NoDisk]

\* a cache that is never used
CacheIdle ==
    /\ cache = <<>>
    /\ capacity = 1
    /\ disk = NoDisk
    /\ now = 0
    /\ threads = [t \in ThreadIds |-> IdleThread]
    /\ lock = 0
    /\ history = NoHistory
    /\ compact = NoCompact

\* ------------------------------------------------------------ services data
\* file_pattern: None, or a glob
NoFilePattern == [some |-> FALSE, text |-> ""]
Glob(text) == [some |-> TRUE, text |-> text]

\* the arguments of search_code_advanced
Request(pattern, case_sensitive, context_lines, file_pattern, fuzzy, page, page_size) ==
    [pattern |-> pattern, case_sensitive |-> case_sensitive,
     context_lines |-> context_lines, file_pattern |-> file_pattern,
     fuzzy |-> fuzzy, page |-> page, page_size |-> page_size]

\* search_code_advanced: the default page_size
page_size_default == 20

\* the requests that are made: one search, and requests that differ from it
\* in the file glob, the page, the page size, the pattern, the case flag
Requests ==
    {Request("TODO", TRUE, 0, NoFilePattern, FALSE, 1, page_size_default),
     Request("TODO", TRUE, 0, Glob("None"), FALSE, 1, page_size_default),
     Request("TODO", TRUE, 0, NoFilePattern, FALSE, 3, page_size_default),
     Request("TODO", TRUE, 0, NoFilePattern, FALSE, 1, 2),
     Request("def", TRUE, 0, NoFilePattern, FALSE, 2, 2),
     Request("TODO", FALSE, 0, Glob("*.py"), FALSE, 0, 0)}

\* page sizes a result is cut into
PageSizes == {1, 2, 7, page_size_default}

\* the six arguments a cached result is specific to
SearchedFor(r) ==
    <<r.pattern, r.case_sensitive, r.context_lines, r.file_pattern, r.fuzzy,
      r.page>>

\* no search request in flight, none answered
NoSearch == [pc |-> "idle", request |-> CHOOSE r \in Requests : TRUE,
             raw |-> <<>>, response |-> [error |-> "none"],
             hit |-> FALSE, cached_for |-> <<>>, time |-> 0]

\* no search has run
SearchIdle ==
    /\ query_cache = <<>>
    /\ search = NoSearch

\* bound: the length of the list of patterns of a multi-pattern search
MaxPatterns == 2
\* the lists of patterns, the empty list and repeated patterns included
PatternLists == UNION {[1..n -> {"TODO", "def"}] : n \in 0..MaxPatterns}
\* what the search for one pattern does: it returns, raises an Exception,
\* or is cancelled (CancelledError)
SearchOutcomes == {"ok", "fail", "cancelled"}
\* SearchStrategy.search_multiple, SearchStrategy.search_multiple_async and
\* AsyncSearchStrategy.search_multiple_async
MultiApis == {"search_multiple", "search_multiple_async",
              "AsyncSearchStrategy.search_multiple_async"}

\* no multi-pattern search in flight
NoMulti == [pc |-> "idle", api |-> "search_multiple", patterns |-> <<>>,
            outcomes |-> <<>>, pending |-> {}, results |-> {},
            raised |-> "none"]

\* the files whose content is requested through holders
LazyFiles == {MainPy, HelperPy, NotesTxt}

\* the full paths the manager is asked for: project files by their
\* components below the project root, other paths with their root first
HeldFiles == LazyFiles \cup {<<"link", "passwd">>, <<"sibling", "secret">>,
                             <<"C:", "x">>, <<"/", "etc", "passwd">>}
\* a thread that is not inside a call of the manager or of a holder
IdleReader == [pc |-> "idle", op |-> "none", path |-> MainPy, todo |-> {}]

\* a manager without holders.  holders[p].lock and lock hold the id of the
\* thread that has acquired the Lock, 0 if it is free; recency is the order
\* in which the holders were last handed out or read.
NoLazy == [max_loaded_files |-> 1,
           holders |-> [f \in HeldFiles |->
              [registered |-> FALSE, loaded |-> FALSE, lock |-> 0]],
           access_order |-> <<>>, lock |-> 0,
           readers |-> [t \in ThreadIds |-> IdleReader],
           recency |-> <<>>, unloaded_oldest |-> TRUE]

\* unload_all with every lock free: every holder is unloaded and
\* _access_order cleared
unload_all(lz) ==
    [lz EXCEPT !.holders = [f \in HeldFiles |-> [@[f] EXCEPT !.loaded = FALSE]],
               !.access_order = <<>>]

\* no thread holds the manager's lock or a holder's lock
LocksFree(lz) ==
    /\ lz.lock = 0
    /\ \A f \in HeldFiles : lz.holders[f].lock = 0

\* MemoryLimits: the defaults
MemoryLimits == [soft_limit_mb |-> 512, hard_limit_mb |-> 1024,
                 max_loaded_files |-> 100, max_cached_queries |-> 50,
                 gc_threshold_mb |-> 256, spill_threshold_mb |-> 768]

\* create_memory_config_from_yaml for a configuration that sets
\* max_cached_queries to 1 and leaves the rest at the defaults
memory_limits == [MemoryLimits EXCEPT !.max_cached_queries = 1]

\* the values _get_memory_usage returns, in MB
MemoryLevels == {100, 800, 1100}

\* no governor: memory_profiler is None until a project is set.  pc, todo
\* and cache_items are the position of the monitor thread; spill_files is
\* the content of the spill directory; due, ran, logged and propagated
\* record what the last pass did, pass the counts at its start, the counts
\* its snapshot recorded and whether it ran the cleanup, spill what the last
\* spill wrote and what it cleared.
NoGovernor == [profiler |-> FALSE, monitoring |-> FALSE,
               spilled_data |-> {}, spill_files |-> {},
               pc |-> "idle", todo |-> <<>>, cache_items |-> <<>>,
               due |-> <<>>, ran |-> <<>>, logged |-> {},
               propagated |-> FALSE,
               pass |-> [kind |-> "none", loaded_files |-> 0,
                         cached_queries |-> 0,
                         recorded |-> [loaded_files |-> 0,
                                       cached_queries |-> 0],
                         cleanup |-> FALSE],
               spill |-> [written |-> <<>>, removed |-> <<>>]]

\* MemoryProfiler(memory_limits), MemoryAwareLazyContentManager(...) and
\* start_monitoring: the spill directory is not touched
new_profiler(g) ==
    [NoGovernor EXCEPT !.profiler = TRUE, !.monitoring = TRUE,
                       !.spill_files = g.spill_files]

\* the process ends.  Whether MemoryProfiler.__del__ runs at interpreter
\* exit is up to the interpreter: if it does, cleanup_spill_files unlinks
\* the files in spilled_data.
process_exit(g, finalized) ==
    [NoGovernor EXCEPT !.spill_files =
        IF finalized
        THEN {file \in g.spill_files : file.key \notin g.spilled_data}
        ELSE g.spill_files]

\* the file paths clients ask for: main.py, utils/../main.py,
\* ../proj2/secret, /etc/passwd, C:/x, link/passwd and sibling/secret,
\* where link is a symbolic link in the project to /etc and sibling one to
\* /proj2
FilePaths ==
    {RelPath(MainPy), RelPath(<<"utils", "..", "main.py">>),
     RelPath(<<"..", "proj2", "secret">>), [root |-> "/", parts |-> <<"etc", "passwd">>],
     RelPath(<<"C:", "x">>), RelPath(<<"link", "passwd">>),
     RelPath(<<"sibling", "secret">>)}

\* no file was read
NoRead == [root |-> "", parts |-> <<>>]

\* no file request
NoAccess == [pc |-> "idle", handler |-> "none", file_path |-> RelPath(MainPy),
             rejected |-> FALSE, read |-> NoRead]

\* the services of a newly started server process
FreshServices ==
    /\ query_cache' = <<>>
    /\ search' = [NoSearch EXCEPT !.time = search.time]
    /\ multi' = NoMulti
    /\ lazy' = [NoLazy EXCEPT !.max_loaded_files = lazy.max_loaded_files]
    /\ \E finalized \in BOOLEAN : governor' = process_exit(governor, finalized)
    /\ access' = NoAccess

\* the services as they are when nothing uses them
ServicesIdle ==
    /\ SearchIdle
    /\ multi = NoMulti
    /\ lazy = NoLazy
    /\ governor = NoGovernor
    /\ access = NoAccess

\* the state of the index after construction, for a given project content
IndexInit(absent) ==
    /\ fs = [p \in AllFiles \ absent |-> [mtime |-> 0, size |-> InitSize(p)]]
    /\ fsOps = 0
    /\ base_path = ""
    /\ file_count = 0
    /\ file_index = {}
    /\ index_file = [d \in {"default", Project} |-> NoFile]
    /\ metadata_db = EmptyMeta
    /\ rf = [i \in RefreshIds |-> IdleRf]
    /\ shut = NoShutdown
    /\ last = Outcome("init")

\* a server that has just started on the full project
ServerIdle ==
    /\ IndexInit({})
    /\ OperationsIdle
    /\ global_handlers = FALSE
    /\ CacheIdle
    /\ StoresIdle
    /\ ServicesIdle

Init ==
    /\ \E absent \in {{}, {ConfigJson}, AllFiles} : IndexInit(absent)
    /\ OperationsIdle
    /\ global_handlers = FALSE
    /\ CacheIdle
    /\ StoresIdle
    /\ ServicesIdle

\* ------------------------------------------------------------ environment
\* a byte is appended to a file: new mtime, size + 1
AppendFile(p) ==
    /\ fsOps < MaxFsOps
    /\ p \in DOMAIN fs
    /\ fsOps' = fsOps + 1
    /\ fs' = [fs EXCEPT ![p] = [mtime |-> fsOps + 1, size |-> @.size + 1]]
    /\ UNCHANGED <<base_path, file_count, file_index, index_file,
                   metadata_db, rf, shut, last>>
    /\ UNCHANGED <<operationVars, cacheVars, storeVars, serviceVars>>

\* a file is deleted
DeleteFile(p) ==
    /\ fsOps < MaxFsOps
    /\ p \in DOMAIN fs
    /\ fsOps' = fsOps + 1
    /\ fs' = [q \in DOMAIN fs \ {p} |-> fs[q]]
    /\ UNCHANGED <<base_path, file_count, file_index, index_file,
                   metadata_db, rf, shut, last>>
    /\ UNCHANGED <<operationVars, cacheVars, storeVars, serviceVars>>

\* a file is created
CreateFile(p) ==
    /\ fsOps < MaxFsOps
    /\ p \notin DOMAIN fs
    /\ fsOps' = fsOps + 1
    /\ fs' = [q \in DOMAIN fs \cup {p} |->
                IF q = p THEN [mtime |-> fsOps + 1, size |-> InitSize(p)]
                ELSE fs[q]]
    /\ UNCHANGED <<base_path, file_count, file_index, index_file,
                   metadata_db, rf, shut, last>>
    /\ UNCHANGED <<operationVars, cacheVars, storeVars, serviceVars>>

\* ----------------------------------------------------------- _index_project
\* the synchronous indexer: clears the tree, classifies the walk against the
\* tracker loaded from metadata.db, indexes the changed files, and saves
\* the tracker; returns the new tree, the returned count and the new rows
_index_project(fsv, db, base) ==
    LET current == Walk(fsv)
        added == added_files(db, current)
        modified == modified_files(db, fsv, base, current)
        deleted == deleted_files(db, current)
        meta1 == clean_deleted_files(db, deleted)
        changed == changed_files(added, modified)
    IN  IF changed = {} /\ deleted = {}
        THEN [tree |-> {}, count |-> Cardinality(DOMAIN meta1), db |-> db]
        ELSE LET done == {p \in changed : stat(fsv, join(base, p)) # Missing}
                 meta2 == update_file_metadata(meta1, fsv, base, done)
             IN  [tree |-> merge({}, done), count |-> Cardinality(done),
                  db |-> save_metadata(db, meta2)]

\* OptimizedProjectSettings.load_index as set_project_path uses its result:
\* "empty_trie" when there is no pickle (a new TrieFileIndex, which is
\* truthy), "dict" for a non-empty unpickled dict, "falsy" for an empty
\* dict or a pickle that does not load (None)
load_index(f) ==
    CASE f.state = "none" -> "empty_trie"
      [] f.state = "ok" /\ f.data # {} -> "dict"
      [] OTHER -> "falsy"

\* set_project_path(Project)
SetProjectPath ==
    /\ NoHandlerRunning
    /\ LET kind == load_index(index_file[Project])
           r == _index_project(fs, metadata_db, Project)
       IN  /\ base_path' = Project
           /\ IF kind = "empty_trie"
              THEN /\ file_index' = {}
                   /\ file_count' = 0
                   /\ UNCHANGED <<index_file, metadata_db>>
              ELSE IF kind = "dict"
              THEN /\ file_index' = index_file[Project].data
                   /\ file_count' = _count_files(index_file[Project].data)
                   /\ UNCHANGED <<index_file, metadata_db>>
              ELSE /\ file_index' = r.tree
                   /\ file_count' = r.count
                   /\ metadata_db' = r.db
                   /\ index_file' = [index_file EXCEPT
                                        ![Project] = Pickle(r.tree)]
           /\ last' = [Outcome("set_project") EXCEPT
                          !.files = file_count',
                          !.current = Walk(fs),
                          !.fresh = (index_file[Project].state = "none"),
                          !.shut = shut]
    /\ shut' = NoShutdown
    /\ LocksFree(lazy)
    /\ lazy' = unload_all(lazy)
    /\ governor.pc = "idle"
    /\ governor' = new_profiler(governor)
    /\ UNCHANGED <<fs, fsOps, rf>>
    /\ UNCHANGED <<operationVars, cacheVars, storeVars, searchVars, multi, access>>

\* get_project_structure / find_files: index on demand when the tree is
\* empty, then answer from the tree
GetStructure ==
    /\ NoHandlerRunning
    /\ base_path # ""
    /\ IF file_index = {}
       THEN LET r == _index_project(fs, metadata_db, base_path)
            IN  /\ file_index' = r.tree
                /\ file_count' = _count_files(r.tree)
                /\ metadata_db' = r.db
                /\ index_file' = [index_file EXCEPT
                                     ![base_path] = Pickle(r.tree)]
       ELSE UNCHANGED <<file_index, file_count, metadata_db, index_file>>
    /\ last' = [Outcome("get_structure") EXCEPT
                   !.files = file_count', !.current = Walk(fs)]
    /\ UNCHANGED <<fs, fsOps, base_path, rf, shut>>
    /\ UNCHANGED <<operationVars, cacheVars, storeVars, serviceVars>>

\* clear_settings: settings.clear() removes the .db files (recreated empty)
\* and every other file of the settings directory
ClearSettings ==
    /\ NoHandlerRunning
    /\ base_path # ""
    /\ index_file' = [index_file EXCEPT ![base_path] = NoFile]
    /\ metadata_db' = EmptyMeta
    /\ last' = Outcome("clear_settings")
    /\ UNCHANGED <<fs, fsOps, base_path, file_count, file_index, rf, shut>>
    /\ UNCHANGED <<operationVars, cacheVars, storeVars, serviceVars>>
\* -------------------------------------------------------------- refresh_index
\* refresh_index up to its first suspension: the trackers are created, the
\* cleanup hook registered, and _index_project_with_progress clears the
\* tree, loads the tracker, walks and classifies.  With work to do it
\* suspends in process_files; otherwise it returns and save_index opens
\* the pickle for writing.
RefreshStart(i) ==
    /\ NoHandlerRunning
    /\ base_path # ""
    /\ rf[i].pc = "idle"
    /\ \A j \in RefreshIds : j < i => rf[j].pc # "idle"
    /\ LET current == Walk(fs)
           added == added_files(metadata_db, current)
           modified == modified_files(metadata_db, fs, base_path, current)
           deleted == deleted_files(metadata_db, current)
           meta1 == clean_deleted_files(metadata_db, deleted)
           changed == changed_files(added, modified)
           tasks == {p \in changed : stat(fs, join(base_path, p)) # Missing}
           me == [IdleRf EXCEPT
                     !.file_metadata = meta1, !.current = current,
                     !.added = added, !.modified = modified,
                     !.deleted = deleted,
                     !.truly = TrulyModified(metadata_db, fs, base_path,
                                             current)]
       IN  /\ file_index' = {}
           /\ IF changed = {} /\ deleted = {}
              THEN \* no changes detected: return len(indexer.file_metadata)
                   /\ rf' = [rf EXCEPT ![i] =
                               [me EXCEPT !.pc = "dumping",
                                  !.previous = index_file[base_path],
                                  !.file_count = Cardinality(DOMAIN meta1)]]
                   /\ file_count' = Cardinality(DOMAIN meta1)
                   /\ index_file' = [index_file EXCEPT
                                        ![base_path] = Truncated]
                   /\ UNCHANGED metadata_db
                   /\ last' = Outcome("refresh_saving")
              ELSE IF tasks # {}
              THEN /\ rf' = [rf EXCEPT ![i] =
                               [me EXCEPT !.pc = "await", !.tasks = tasks]]
                   /\ UNCHANGED <<file_count, index_file, metadata_db>>
                   /\ last' = Outcome("refresh_suspended")
              ELSE \* nothing to process: save the tracker and return 0
                   /\ rf' = [rf EXCEPT ![i] =
                               [me EXCEPT !.pc = "dumping",
                                  !.previous = index_file[base_path]]]
                   /\ file_count' = 0
                   /\ metadata_db' = save_metadata(metadata_db, meta1)
                   /\ index_file' = [index_file EXCEPT
                                        ![base_path] = Truncated]
                   /\ last' = Outcome("refresh_saving")
    /\ UNCHANGED <<fs, fsOps, base_path, shut>>
    /\ UNCHANGED <<operationVars, cacheVars, storeVars, serviceVars>>

\* the outcome of a refresh, from the coroutine's locals
RefreshOutcome(op, r, status) ==
    [Outcome(op) EXCEPT
        !.files = r.file_count, !.current = r.current, !.added = r.added,
        !.modified = r.modified, !.deleted = r.deleted, !.truly = r.truly,
        !.status = status]

\* process_files has returned.  A set cancel flag raises CancelledError at
\* the next check and ProgressContext.__aexit__ finds the tracker already
\* cancelled; otherwise the results are merged into the global tree, the
\* tracker is updated and saved, and save_index opens the pickle.
RefreshResume(i) ==
    /\ NoHandlerRunning
    /\ rf[i].pc = "await"
    /\ IF rf[i].cancelled
       THEN /\ rf' = [rf EXCEPT ![i] = IdleRf]
            /\ last' = [RefreshOutcome("refresh_cancelled", rf[i],
                                        "cancelled") EXCEPT
                           !.completion =
                               TreePaths(merge(file_index, rf[i].tasks))]
            /\ UNCHANGED <<file_index, file_count, metadata_db, index_file>>
       ELSE LET meta2 == update_file_metadata(rf[i].file_metadata, fs,
                                              base_path, rf[i].tasks)
            IN  /\ file_index' = merge(file_index, rf[i].tasks)
                /\ file_count' = Cardinality(rf[i].tasks)
                /\ metadata_db' = save_metadata(metadata_db, meta2)
                /\ index_file' = [index_file EXCEPT
                                     ![base_path] = Truncated]
                /\ rf' = [rf EXCEPT ![i] =
                            [@ EXCEPT !.pc = "dumping",
                                      !.previous = index_file[base_path],
                                      !.file_metadata = meta2,
                                      !.file_count = Cardinality(rf[i].tasks)]]
                /\ last' = Outcome("refresh_saving")
    /\ UNCHANGED <<fs, fsOps, base_path, shut>>
    /\ UNCHANGED <<operationVars, cacheVars, storeVars, serviceVars>>

\* pickle.dump completes, the config is saved, the tracker completes and
\* the response is returned
RefreshFinish(i) ==
    /\ rf[i].pc = "dumping"
    /\ index_file' = [index_file EXCEPT ![base_path] = Pickle(file_index)]
    /\ rf' = [rf EXCEPT ![i] = IdleRf]
    /\ last' = RefreshOutcome("refresh_ok", rf[i], "completed")
    /\ UNCHANGED <<fs, fsOps, base_path, file_count, file_index,
                   metadata_db, shut>>
    /\ UNCHANGED <<operationVars, cacheVars, storeVars, serviceVars>>

\* cancel_operation on the tracker of a suspended refresh: the status and
\* the token are set, then the cleanup hook saves file_index if it is
\* not empty
CancelOperation(i) ==
    /\ NoHandlerRunning
    /\ rf[i].pc = "await"
    /\ ~rf[i].cancelled
    /\ rf' = [rf EXCEPT ![i].cancelled = TRUE]
    /\ index_file' = IF file_index # {}
                     THEN [index_file EXCEPT ![base_path] = Pickle(file_index)]
                     ELSE index_file
    /\ last' = Outcome("cancel")
    /\ UNCHANGED <<fs, fsOps, base_path, file_count, file_index,
                   metadata_db, shut>>
    /\ UNCHANGED <<operationVars, cacheVars, storeVars, serviceVars>>

\* force_reindex(clear_cache).  With clear_cache the settings directory is
\* cleared, the tree is cleared, and indexer.clear_metadata() raises
\* AttributeError (IncrementalIndexer has no such method), after the
\* content of every holder has been unloaded: the handler
\* returns an error before it creates a tracker or indexes anything.
\* Without clear_cache it runs the pipeline of refresh_index.
ForceReindex(clear_cache) ==
    /\ NoHandlerRunning
    /\ base_path # ""
    /\ IF clear_cache
       THEN /\ index_file' = [index_file EXCEPT ![base_path] = NoFile]
            /\ metadata_db' = EmptyMeta
            /\ file_index' = {}
            /\ last' = [Outcome("force_reindex") EXCEPT
                           !.current = Walk(fs), !.status = "error"]
            /\ LocksFree(lazy)
            /\ lazy' = unload_all(lazy)
            /\ UNCHANGED <<fs, fsOps, base_path, file_count, rf, shut>>
            /\ UNCHANGED <<operationVars, cacheVars, storeVars>>
            /\ UNCHANGED <<searchVars, multi, governor, access>>
       ELSE \E i \in RefreshIds : RefreshStart(i)

\* ------------------------------------------------------ shutdown and crash
\* the state of a newly started server process
FreshMemory ==
    /\ base_path' = ""
    /\ file_count' = 0
    /\ file_index' = {}
    /\ rf' = [i \in RefreshIds |-> IdleRf]

\* clean shutdown (indexer_lifespan's finally block) followed by a new
\* start: the tree is saved through the settings object created at startup
Restart ==
    /\ NoHandlerRunning
    /\ index_file' = IF base_path # "" /\ file_index # {}
                     THEN [index_file EXCEPT !["default"] = Pickle(file_index)]
                     ELSE index_file
    /\ shut' = IF base_path # "" /\ file_index # {}
                  /\ \A i \in RefreshIds : rf[i].pc = "idle"
               THEN [clean |-> TRUE, tree |-> file_index]
               ELSE NoShutdown
    /\ FreshMemory
    /\ FreshServices
    /\ last' = Outcome("restart")
    /\ UNCHANGED <<fs, fsOps, metadata_db>>
    /\ UNCHANGED <<operationVars, cacheVars, storeVars>>

\* the process is killed inside save_index, between open() and the end of
\* pickle.dump, and a new one is started
Crash ==
    /\ \E i \in RefreshIds :
          /\ rf[i].pc = "dumping"
          /\ last' = [Outcome("crash") EXCEPT !.previous = rf[i].previous]
    /\ FreshMemory
    /\ FreshServices
    /\ shut' = NoShutdown
    /\ UNCHANGED <<fs, fsOps, index_file, metadata_db>>
    /\ UNCHANGED <<operationVars, cacheVars, storeVars>>

Next ==
    \/ \E p \in AppendedFiles : AppendFile(p)
    \/ \E p \in RemovableFiles : DeleteFile(p)
    \/ \E p \in RemovableFiles : CreateFile(p)
    \/ SetProjectPath
    \/ GetStructure
    \/ ClearSettings
    \/ \E i \in RefreshIds : RefreshStart(i)
    \/ \E i \in RefreshIds : RefreshResume(i)
    \/ \E i \in RefreshIds : RefreshFinish(i)
    \/ \E i \in RefreshIds : CancelOperation(i)
    \/ \E clear_cache \in BOOLEAN : ForceReindex(clear_cache)
    \/ Restart
    \/ Crash

Spec == Init /\ [][Next]_vars
\* ------------------------------------------------------------------ claims
\* the keys of the persisted change tracker, as project-relative paths
TrackerPaths == {k.parts : k \in DOMAIN metadata_db}

\* C1: after every refresh that completes successfully, the set of paths
\* held in the index tree equals the set of paths recorded in the change
\* tracker (stated for refreshes whose walked files all still exist, so
\* that no file vanished while the refresh was running).
C1_TreeEqualsTracker ==
    (last.op = "refresh_ok" /\ last.current \subseteq DOMAIN fs)
        => TreePaths(file_index) = TrackerPaths

\* C2: at no time are two refresh runs of the same project active at once.
C2_NoTwoRefreshesActive ==
    \A i, j \in RefreshIds :
        (rf[i].pc # "idle" /\ rf[j].pc # "idle") => i = j

\* C3: a completed refresh classifies as modified exactly the already-known
\* paths whose mtime or size differs from the stored record (so a refresh
\* with no filesystem change reports modified = 0).
C3_ModifiedExactlyTheChanged ==
    last.op = "refresh_ok" => last.modified = last.truly
\* C4: after a refresh, the reported file count and the index tree cover
\* every indexable file the refresh walked, not only the changed ones.
C4_RefreshCoversEveryFile ==
    last.op = "refresh_ok" =>
        /\ last.files = Cardinality(last.current)
        /\ last.current \subseteq TreePaths(file_index)

\* C4 witness: a completed refresh over three indexed files of which exactly
\* one differs from its stored record reports files = 3.
C4_Witness ==
    /\ last.op = "refresh_ok"
    /\ Cardinality(last.current) = 3
    /\ Cardinality(last.truly) = 1
    /\ last.added = {} /\ last.deleted = {}
    /\ last.files = 3
    /\ _count_files(file_index) = 3

\* C5: whenever indexing returns a file count N, the in-memory index tree
\* holds exactly N file entries.
C5_CountEqualsTreeEntries ==
    last.op \in {"refresh_ok", "set_project"} =>
        last.files = _count_files(file_index)

\* C6: the first set_project_path of a project that has no persisted index
\* builds the index by walking the project: the reported file count is the
\* number of indexable files and the tree contains them.
C6_FirstSetProjectBuildsIndex ==
    (last.op = "set_project" /\ last.fresh) =>
        /\ last.files = Cardinality(last.current)
        /\ TreePaths(file_index) = last.current

\* C7: the tree held in memory when the server shuts down is the tree that
\* the next set_project_path of the same project loads.
C7_ShutdownTreeIsLoaded ==
    (last.op = "set_project" /\ last.shut.clean) =>
        file_index = last.shut.tree

\* C8: every path that a completed refresh classified as deleted (and that
\* has not been created again) is absent afterwards from the index tree and
\* from the persisted change tracker that the next refresh loads.
C8_DeletedPathsAreForgotten ==
    last.op = "refresh_ok" =>
        \A p \in last.deleted \ DOMAIN fs :
            /\ p \notin TreePaths(file_index)
            /\ p \notin TrackerPaths

\* C9: a save of the index pickle that is interrupted leaves the previously
\* persisted file (a loadable pickle of a non-empty tree) as it was.
C9_InterruptedSaveKeepsPreviousFile ==
    (last.op = "crash" /\ last.previous.state = "ok"
                       /\ last.previous.data # {}) =>
        index_file[Project] = last.previous

\* C10: a cancelled refresh ends with status cancelled and with a persisted
\* tree whose paths are a subset of the tree the refresh would have produced
\* had it run to completion.
C10_CancelledTreeIsSubset ==
    last.op = "refresh_cancelled" =>
        /\ last.status = "cancelled"
        /\ TreePaths(index_file[Project].data) \subseteq last.completion

\* C13: a force re-index with clear_cache clears the caches and persistent
\* artefacts and then runs the full pipeline to successful completion with
\* every indexable file treated as added.
C13_ForceReindexRebuildsEverything ==
    last.op = "force_reindex" =>
        /\ last.status = "completed"
        /\ last.added = last.current
        /\ TreePaths(file_index) = last.current

\* ------------------------------------------------------- progress tracker
\* ProgressTracker._emit_event: the event, with the status it carries, is
\* handed to every handler.  The log of a tracker lists the lifecycle
\* events delivered to its handlers and the cleanup tasks run, in order
\* (progress and stage events are not listed).
_emit_event(t, event_type) ==
    IF t.handler
    THEN [t EXCEPT !.log = Append(@, [event |-> event_type,
                                      status |-> t.status])]
    ELSE t

\* the cleanup tasks of the tracker are called
run_tasks(t) ==
    [t EXCEPT !.log = Append(@, [event |-> "task", status |-> t.status])]

\* ProgressTracker._run_cleanup
_run_cleanup(t) ==
    IF ~t.cleanup_tasks
    THEN t
    ELSE _emit_event(run_tasks(_emit_event(t, "cleanup_started")),
                     "cleanup_completed")

\* ProgressTracker.start
start(t, time) ==
    _emit_event([t EXCEPT !.status = "running", !.start_time = time],
                "started")

\* ProgressTracker.update_progress, called n times with the default
\* items_processed = 1 on a tracker whose token is not set
update_progress(t, n) ==
    [t EXCEPT !.items_processed = @ + n, !.calls = @ + n]

\* complete as it would be without the assignment to items_processed
complete_keeps_count(t) ==
    _emit_event([t EXCEPT !.status = "completed"], "completed")

\* ProgressTracker.complete
complete(t) ==
    _emit_event([t EXCEPT !.status = "completed",
                          !.items_processed = t.total_items],
                "completed")

\* cancel as it would be if the event were emitted before the status is set
cancel_emits_first(t) ==
    IF t.status \in {"completed", "cancelled"}
    THEN t
    ELSE _run_cleanup([_emit_event(t, "cancelled") EXCEPT
                          !.status = "cancelled", !.token = TRUE])

\* ProgressTracker.cancel
cancel(t) ==
    IF t.status \in {"completed", "cancelled"}
    THEN t
    ELSE _run_cleanup(_emit_event([t EXCEPT !.status = "cancelled",
                                            !.token = TRUE],
                                  "cancelled"))

\* ProgressTracker.fail
fail(t) ==
    _run_cleanup(_emit_event([t EXCEPT !.status = "failed"], "failed"))

\* max(total_files, 1)
max1(n) == IF n > 1 THEN n ELSE 1

\* `async with ProgressContext(...)` and the body of refresh_index or
\* force_reindex up to its suspension in process_files.  refresh_index
\* first creates `tracker` and gives it the LoggingProgressHandler.
\* `progress_tracker` is created with the manager's global handlers and
\* started, refresh_index adds its cleanup task, total_items is set to the
\* number of files found, update_progress is called, and one task per
\* changed file is handed to the executor.  With no changed file the body
\* runs to its end.
EnterContext(tool, total_files, nfiles, updates) ==
    /\ \A i \in OpIds : trackers[i].status = "none"
    /\ nfiles <= total_files
    /\ LET t0 == start(ProgressTracker(InitialTotal, global_handlers, clock),
                       clock)
           t1 == update_progress(
                     [t0 EXCEPT !.cleanup_tasks = (tool = "refresh_index"),
                                !.total_items = max1(total_files)],
                     updates)
           t2 == IF nfiles = 0
                 THEN [complete(update_progress(t1, updates))
                          EXCEPT !.body = "out"]
                 ELSE [t1 EXCEPT !.body = "await"]
       IN  trackers' = [trackers EXCEPT
                           !["tracker"] =
                               IF tool = "refresh_index"
                               THEN ProgressTracker(InitialTotal, TRUE, clock)
                               ELSE @,
                           !["progress_tracker"] = t2]
    /\ pool' = [EmptyPool EXCEPT !.queued = nfiles]
    /\ UNCHANGED <<global_handlers, clock, delivery>>
    /\ UNCHANGED <<indexVars, cacheVars, storeVars, serviceVars>>

\* a thread of the executor takes the next queued task and runs
\* process_task on it
WorkerStart ==
    /\ pool.queued > 0
    /\ pool.running < max_workers
    /\ pool' = [pool EXCEPT !.queued = @ - 1, !.running = @ + 1]
    /\ UNCHANGED <<trackers, global_handlers, clock, delivery>>
    /\ UNCHANGED <<indexVars, cacheVars, storeVars, serviceVars>>

\* process_task returns its IndexingResult
WorkerFinish ==
    /\ pool.running > 0
    /\ pool' = [pool EXCEPT !.running = @ - 1, !.done = @ + 1]
    /\ UNCHANGED <<trackers, global_handlers, clock, delivery>>
    /\ UNCHANGED <<indexVars, cacheVars, storeVars, serviceVars>>

\* process_files has returned every result and the body goes on to its
\* end: check_cancelled raises CancelledError when the token is set, an
\* error of the remaining steps raises an exception, otherwise the body
\* updates the progress and ends; ProgressContext.__aexit__ then cancels,
\* fails or completes the tracker
ExitContext(raises, updates) ==
    /\ trackers["progress_tracker"].body = "await"
    /\ pool.queued = 0 /\ pool.running = 0
    /\ LET t == trackers["progress_tracker"]
           t1 == IF t.token THEN cancel(t)
                 ELSE IF raises THEN fail(t)
                 ELSE complete(update_progress(t, updates))
       IN  trackers' = [trackers EXCEPT
                           !["progress_tracker"] = [t1 EXCEPT !.body = "out"]]
    /\ UNCHANGED <<global_handlers, pool, clock, delivery>>
    /\ UNCHANGED <<indexVars, cacheVars, storeVars, serviceVars>>

\* the cancel_operation tool: ProgressManager.cancel_operation
ManagerCancelOperation(i) ==
    /\ trackers[i].status \notin {"none", "removed"}
    /\ trackers' = [trackers EXCEPT ![i] = cancel(trackers[i])]
    /\ UNCHANGED <<global_handlers, pool, clock, delivery>>
    /\ UNCHANGED <<indexVars, cacheVars, storeVars, serviceVars>>

\* to_remove as it would be without the test of the status
to_remove_any_status(trs, current_time, max_age_seconds) ==
    {i \in OpIds :
        /\ trs[i].status \notin {"none", "removed"}
        /\ current_time - trs[i].start_time > max_age_seconds}

\* the operations ProgressManager.cleanup_completed_operations removes
to_remove(trs, current_time, max_age_seconds) ==
    {i \in OpIds :
        /\ trs[i].status \in {"completed", "cancelled", "failed"}
        /\ current_time - trs[i].start_time > max_age_seconds}

\* the cleanup_completed_operations tool
cleanup_completed_operations(max_age_seconds) ==
    /\ trackers' = [i \in OpIds |->
                      IF i \in to_remove(trackers, clock, max_age_seconds)
                      THEN Removed ELSE trackers[i]]
    /\ UNCHANGED <<global_handlers, pool, clock, delivery>>
    /\ UNCHANGED <<indexVars, cacheVars, storeVars, serviceVars>>

\* time passes
Tick ==
    /\ clock < MaxClock
    /\ clock' = clock + 1
    /\ UNCHANGED <<trackers, global_handlers, pool, delivery>>
    /\ UNCHANGED <<indexVars, cacheVars, storeVars, serviceVars>>

OperationInit ==
    /\ IndexInit({})
    /\ OperationsIdle
    /\ global_handlers \in BOOLEAN
    /\ CacheIdle
    /\ StoresIdle
    /\ ServicesIdle

OperationNext ==
    \/ \E tool \in {"refresh_index", "force_reindex"},
          total_files, nfiles \in FileCounts, updates \in UpdateCounts :
          EnterContext(tool, total_files, nfiles, updates)
    \/ WorkerStart
    \/ WorkerFinish
    \/ \E raises \in BOOLEAN, updates \in UpdateCounts :
          ExitContext(raises, updates)
    \/ \E i \in OpIds : ManagerCancelOperation(i)
    \/ \E max_age_seconds \in 0..MaxClock :
          cleanup_completed_operations(max_age_seconds)
    \/ Tick

OperationSpec == OperationInit /\ [][OperationNext]_vars

\* ------------------------------------------- delivery of stage events
\* refresh_index, "Stage 3: Saving": process_files has returned and the body
\* calls update_progress(stage_index=2).  The token is tested, then with
\* self._lock the count is raised, the stage set and the STAGE_CHANGED event
\* awaited in _emit_event.  A handler whose callback is a coroutine function
\* suspends the operation there (CallbackProgressHandler.handle_event), with
\* the lock held; with any other handler the call runs to its end.
UpdateProgressStage(stage_index, suspends) ==
    LET t == trackers["progress_tracker"]
    IN  /\ ~delivery.blocked
        /\ delivery.holder = "none"
        /\ t.body = "await"
        /\ pool.queued = 0 /\ pool.running = 0
        /\ ~t.token
        /\ stage_index # delivery.current_stage_index
        /\ trackers' = [trackers EXCEPT
                           !["progress_tracker"] = update_progress(t, 1)]
        /\ delivery' = [delivery EXCEPT
              !.current_stage_index = stage_index,
              !.holder = IF t.handler /\ suspends
                         THEN "progress_tracker" ELSE "none"]
        /\ UNCHANGED <<global_handlers, pool, clock>>
        /\ UNCHANGED <<indexVars, cacheVars, storeVars, serviceVars>>

\* the callback of the handler returns: _emit_event returns, the `with`
\* block of update_progress is left and the PROGRESS event emitted
HandlerReturns ==
    /\ ~delivery.blocked
    /\ delivery.holder # "none"
    /\ delivery' = [delivery EXCEPT !.holder = "none"]
    /\ UNCHANGED <<trackers, global_handlers, pool, clock>>
    /\ UNCHANGED <<indexVars, cacheVars, storeVars, serviceVars>>

\* the cancel_operation tool, run by the event loop while the operation is
\* suspended in the handler: ProgressTracker.cancel enters `with self._lock`
\* (a threading.Lock), which the suspended update_progress holds; the thread
\* of the event loop waits for it
CancelDuringDelivery(i) ==
    /\ ~delivery.blocked
    /\ delivery.holder = i
    /\ delivery' = [delivery EXCEPT !.blocked = TRUE]
    /\ UNCHANGED <<trackers, global_handlers, pool, clock>>
    /\ UNCHANGED <<indexVars, cacheVars, storeVars, serviceVars>>

\* The tools of OperationNext with the stage event's delivery as steps of
\* its own.  The coroutines run on the thread of the event loop, one at a
\* time, and the body of the operation goes on when its handler has
\* returned; the executor's threads and the clock run on their own.
DeliveryNext ==
    \/ /\ ~delivery.blocked
       /\ \E tool \in {"refresh_index", "force_reindex"},
             total_files, nfiles \in FileCounts, updates \in UpdateCounts :
             EnterContext(tool, total_files, nfiles, updates)
    \/ WorkerStart
    \/ WorkerFinish
    \/ \E suspends \in BOOLEAN : UpdateProgressStage(2, suspends)
    \/ HandlerReturns
    \/ /\ ~delivery.blocked /\ delivery.holder = "none"
       /\ \E raises \in BOOLEAN, updates \in UpdateCounts :
             ExitContext(raises, updates)
    \/ \E i \in OpIds :
          /\ ~delivery.blocked /\ delivery.holder # i
          /\ ManagerCancelOperation(i)
    \/ \E i \in OpIds : CancelDuringDelivery(i)
    \/ /\ ~delivery.blocked
       /\ \E max_age_seconds \in 0..MaxClock :
             cleanup_completed_operations(max_age_seconds)
    \/ Tick

DeliverySpec == OperationInit /\ [][DeliveryNext]_vars

\* C40: a cancel issued while a stage-changed event of the operation is
\* being delivered does not leave the event loop's thread waiting for the
\* tracker's lock, which the suspended operation would then never release.
C40_CancelIsNotBlocked ==
    ~delivery.blocked

\* ------------------------------------------------- claims on the trackers
\* C11: when an operation is cancelled, all of its registered cleanup tasks
\* have run before the cancelled event is delivered to an event handler.
C11_CleanupBeforeCancelledEvent ==
    \A i \in OpIds :
        LET l == trackers[i].log
        IN  \A p \in 1..Len(l) :
                (l[p].event = "cancelled" /\ trackers[i].cleanup_tasks)
                    => \E q \in 1..(p - 1) : l[q].event = "task"

\* C12: once the cancel flag of an operation is set, no worker begins
\* processing another file.
C12_NoWorkerStartsAfterCancel ==
    [][pool'.running > pool.running
          => ~trackers["progress_tracker"].token]_vars

\* C18: for every operation whose status is completed, items_processed is
\* at most total_items.
C18_CompletedWithinTotal ==
    \A i \in OpIds :
        trackers[i].status = "completed"
            => trackers[i].items_processed <= trackers[i].total_items

\* C18 witness: a completed operation on which update_progress was called
\* more often than it has items.
C18_Witness ==
    /\ trackers["progress_tracker"].status = "completed"
    /\ trackers["progress_tracker"].calls >
           trackers["progress_tracker"].total_items

\* positions of the terminal events in the log of a tracker
TerminalEvents(l) ==
    {p \in 1..Len(l) : l[p].event \in {"completed", "cancelled", "failed"}}

\* C19: for every operation in a terminal status whose events reach a
\* handler, every terminal event carries the status it announces and the
\* latest terminal event is the one of the operation's status.
C19_TerminalEventMatchesStatus ==
    \A i \in OpIds :
        (trackers[i].handler
            /\ trackers[i].status \in {"completed", "cancelled", "failed"})
        => LET l == trackers[i].log
               T == TerminalEvents(l)
           IN  /\ T # {}
               /\ \A p \in T :
                     /\ l[p].status = l[p].event
                     /\ (\A q \in T : q <= p)
                            => l[p].event = trackers[i].status

\* C19 witness: an operation that failed and was cancelled afterwards; its
\* handler received the failed and then the cancelled event.
C19_Witness ==
    LET t == trackers["progress_tracker"]
    IN  /\ t.handler
        /\ t.status = "cancelled"
        /\ \E p, q \in TerminalEvents(t.log) :
              p < q /\ t.log[p].event = "failed"
                    /\ t.log[q].event = "cancelled"

\* C20: a garbage-collection pass with age A removes from the registry
\* exactly the operations that are completed, cancelled or failed and
\* whose age (time since start_time) exceeds A; it never removes a pending
\* or running operation.
C20_GcRemovesExactlyOldTerminal ==
    [][\A A \in 0..MaxClock :
          cleanup_completed_operations(A) =>
              \A i \in OpIds :
                  (trackers'[i].status = "removed"
                      /\ trackers[i].status # "removed")
                  <=> (/\ trackers[i].status \in
                              {"completed", "cancelled", "failed"}
                       /\ clock - trackers[i].start_time > A)]_vars

\* C20 witness: a pass has removed the finished `progress_tracker` and has
\* left the pending `tracker` of the same age in the registry.
C20_Witness ==
    /\ trackers["progress_tracker"].status = "removed"
    /\ trackers["tracker"].status = "pending"

\* C37: once the status of an operation is completed, cancelled or failed,
\* no later call on its tracker changes the status or emits another terminal
\* event (deleting the tracker from the registry apart).
C37_TerminalStatusIsFinal ==
    [][\A i \in OpIds :
          (/\ trackers[i].status \in {"completed", "cancelled", "failed"}
           /\ trackers'[i].status # "removed") =>
              /\ trackers'[i].status = trackers[i].status
              /\ TerminalEvents(trackers'[i].log) =
                     TerminalEvents(trackers[i].log)]_vars

\* C39: once the request has returned (the body of its ProgressContext has
\* been left and no step of the request remains to run), every operation it
\* registered is in a terminal status or deleted; none is left pending or
\* running.
C39_RegisteredOperationsFinish ==
    trackers["progress_tracker"].body = "out" =>
        \A i \in OpIds : trackers[i].status \notin {"pending", "running"}

\* ---------------------------------------------------------------- LRU cache
\* The OrderedDict is a sequence of entries, least recently used first.
\* Values are JSON strings, which json.dump and json.load return unchanged.
keys(c) == {c[i].key : i \in 1..Len(c)}

\* self._cache[key]
entry_of(c, k) == CHOOSE e \in {c[i] : i \in 1..Len(c)} : e.key = k

\* del self._cache[key]
del(c, k) == SelectSeq(c, LAMBDA e : e.key # k)

\* OrderedDict.move_to_end(key)
move_to_end(c, k) == Append(del(c, k), entry_of(c, k))

_is_expired_with_grace(entry, time) == time > entry.expires_at + 1

\* LRUCache._is_expired
_is_expired(entry, time) == time > entry.expires_at

\* LRUCache._evict_lru: popitem(last=False)
_evict_lru(c) == IF c # <<>> THEN Tail(c) ELSE c

get_without_promotion(c, k, time) ==
    IF k \notin keys(c)
    THEN [cache |-> c, result |-> None]
    ELSE IF _is_expired(entry_of(c, k), time)
         THEN [cache |-> del(c, k), result |-> None]
         ELSE [cache |-> c, result |-> entry_of(c, k).value]

\* LRUCache.get, the part under the lock: the cache afterwards and the
\* value returned
get(c, k, time) ==
    IF k \notin keys(c)
    THEN [cache |-> c, result |-> None]
    ELSE IF _is_expired(entry_of(c, k), time)
         THEN [cache |-> del(c, k), result |-> None]
         ELSE [cache |-> move_to_end(c, k), result |-> entry_of(c, k).value]

put_keeps_existing(c, cap, k, v, ttl, time) ==
    LET entry == [key |-> k, value |-> v, expires_at |-> time + ttl]
        added == Append(c, entry)
    IN  IF k \in keys(c)
        THEN move_to_end(c, k)
        ELSE IF Len(added) > cap THEN _evict_lru(added) ELSE added

\* LRUCache.put, the part under the lock: the cache afterwards
put(c, cap, k, v, ttl, time) ==
    LET entry == [key |-> k, value |-> v, expires_at |-> time + ttl]
        added == Append(c, entry)
    IN  IF k \in keys(c)
        THEN Append(del(c, k), entry)
        ELSE IF Len(added) > cap THEN _evict_lru(added) ELSE added

\* LRUCache._perform_cleanup, the part under the lock.  The compaction of
\* PersistentLRUCache._perform_cleanup needs compact_threshold // 2 = 500
\* writes and is out of reach of the calls modelled here.
_perform_cleanup(c, time) == SelectSeq(c, LAMBDA e : ~(time > e.expires_at))

\* PersistentLRUCache._load_from_disk into the empty cache of a new object:
\* every entry of the file that has not expired, in file order
_load_from_disk(d, time) ==
    IF d.exists
    THEN SelectSeq(d.entries, LAMBDA e : time <= e.expires_at)
    ELSE <<>>

\* the keys of a sequence of keys without k, then k: the order of last use
used(recency, k) == Append(SelectSeq(recency, LAMBDA x : x # k), k)

\* the first key of the order of last use that is an entry of the cache
least_recent(recency, c) ==
    LET present == SelectSeq(recency, LAMBDA x : x \in keys(c))
    IN  IF present = <<>> THEN None ELSE Head(present)

\* get(key): the thread takes the mutex and runs the body.  history
\* records, in the order of acquisition, the value last put under each key,
\* the order of last successful use, and what a put that overflowed the
\* capacity removed.
Get(t, k) ==
    LET r == get(cache, k, now)
    IN  /\ threads[t].pc = "idle"
        /\ lock = 0
        /\ lock' = t
        /\ cache' = r.cache
        /\ threads' = [threads EXCEPT ![t] =
              [IdleThread EXCEPT
                 !.pc = "locked", !.op = "get", !.key = k,
                 !.result = r.result,
                 !.expired = /\ k \in keys(cache)
                             /\ now > entry_of(cache, k).expires_at]]
        /\ history' = [history EXCEPT
              !.recency = IF r.result # None
                          THEN used(history.recency, k)
                          ELSE history.recency]
        /\ UNCHANGED <<capacity, disk, now>>
        /\ UNCHANGED <<indexVars, operationVars, serviceVars, compact,
                 storeVars>>

\* put(key, value, ttl): the thread takes the mutex and runs the body of
\* LRUCache.put
Put(t, k, v, ttl) ==
    LET after == put(cache, capacity, k, v, ttl, now)
        overflow == k \notin keys(cache) /\ Len(cache) + 1 > capacity
    IN  /\ threads[t].pc = "idle"
        /\ lock = 0
        /\ lock' = t
        /\ cache' = after
        /\ threads' = [threads EXCEPT ![t] =
              [IdleThread EXCEPT
                 !.pc = "locked", !.op = "put", !.key = k, !.value = v,
                 !.ttl = ttl]]
        /\ history' = [history EXCEPT
              !.latest[k] = v,
              !.recency = used(history.recency, k),
              !.overflow = overflow,
              !.evicted = keys(cache) \ keys(after),
              !.oldest = IF overflow
                         THEN least_recent(history.recency, cache)
                         ELSE None]
        /\ UNCHANGED <<capacity, disk, now>>
        /\ UNCHANGED <<indexVars, operationVars, serviceVars, compact,
                 storeVars>>

\* the end of the with block: get returns; PersistentLRUCache.put goes on to
\* _save_to_disk
Release(t) ==
    /\ threads[t].pc = "locked"
    /\ lock = t
    /\ lock' = 0
    /\ threads' = [threads EXCEPT ![t] =
                     IF threads[t].op = "put"
                     THEN [IdleThread EXCEPT !.pc = "saving"]
                     ELSE IdleThread]
    /\ history' = [history EXCEPT
                     !.overflow = FALSE, !.evicted = {}, !.oldest = None]
    /\ UNCHANGED <<cache, capacity, disk, now>>
    /\ UNCHANGED <<indexVars, operationVars, serviceVars, compact,
                 storeVars>>

\* _save_to_disk: the snapshot of the cache is taken under the lock, dumped
\* to the temporary file and renamed over the persistence file
Save(t) ==
    /\ threads[t].pc = "saving"
    /\ lock = 0
    /\ disk' = [exists |-> TRUE, entries |-> cache]
    /\ threads' = [threads EXCEPT ![t] = IdleThread]
    /\ UNCHANGED <<cache, capacity, now, lock, history>>
    /\ UNCHANGED <<indexVars, operationVars, serviceVars, compact,
                 storeVars>>

\* the background cleanup thread
PerformCleanup ==
    /\ lock = 0
    /\ cache' = _perform_cleanup(cache, now)
    /\ UNCHANGED <<capacity, disk, now, threads, lock, history>>
    /\ UNCHANGED <<indexVars, operationVars, serviceVars, compact,
                 storeVars>>

\* time.time() advances
TickNow ==
    /\ now < MaxNow
    /\ now' = now + 1
    /\ UNCHANGED <<cache, capacity, disk, threads, lock, history>>
    /\ UNCHANGED <<indexVars, operationVars, serviceVars, compact,
                 storeVars>>

\* PersistentLRUCache.__init__ in a new process, with the capacity it is
\* configured with: the persistence file is loaded if it exists
Construct(c) ==
    LET loaded == _load_from_disk(disk, now)
    IN  /\ capacity' = c
        /\ cache' = loaded
        /\ threads' = [t \in ThreadIds |-> IdleThread]
        /\ lock' = 0
        /\ history' = [NoHistory EXCEPT
              !.latest = [k \in Keys |->
                            IF k \in keys(loaded)
                            THEN entry_of(loaded, k).value ELSE None],
              !.recency = [i \in 1..Len(loaded) |-> loaded[i].key]]
        /\ UNCHANGED <<disk, now>>
        /\ UNCHANGED <<indexVars, operationVars, serviceVars, compact,
                 storeVars>>

CacheInit ==
    /\ IndexInit({})
    /\ OperationsIdle
    /\ global_handlers = FALSE
    /\ cache = <<>>
    /\ capacity \in Capacities
    /\ disk = NoDisk
    /\ now = 0
    /\ threads = [t \in ThreadIds |-> IdleThread]
    /\ lock = 0
    /\ history = NoHistory
    /\ compact = NoCompact
    /\ StoresIdle
    /\ ServicesIdle

CacheNext ==
    \/ \E t \in ThreadIds, k \in Keys : Get(t, k)
    \/ \E t \in ThreadIds, args \in Puts :
          Put(t, args[1], args[2], args[3])
    \/ \E t \in ThreadIds : Release(t)
    \/ \E t \in ThreadIds : Save(t)
    \/ PerformCleanup
    \/ TickNow
    \/ \E c \in Capacities : Construct(c)

CacheSpec == CacheInit /\ [][CacheNext]_vars

\* PersistentLRUCache._perform_cleanup of the background thread with
\* _write_count at compact_threshold // 2 or more: the expired entries are
\* removed from the cache, then _compact_persistence_file renames the
\* persistence file, if there is one, to the .backup file
CompactStart ==
    /\ compact.pc = "idle"
    /\ lock = 0
    /\ cache' = _perform_cleanup(cache, now)
    /\ disk' = IF disk.exists THEN NoDisk ELSE disk
    /\ compact' = [pc |-> "renamed",
                   backup |-> IF disk.exists THEN disk ELSE compact.backup]
    /\ UNCHANGED <<capacity, now, threads, lock, history>>
    /\ UNCHANGED <<indexVars, operationVars, serviceVars, storeVars>>

\* _compact_persistence_file calls _save_to_disk: the snapshot is dumped to
\* the temporary file and renamed; an exception of open, json.dump or
\* os.rename is caught and printed inside _save_to_disk, which returns
\* normally either way
CompactSave(fails) ==
    /\ compact.pc = "renamed"
    /\ lock = 0
    /\ disk' = IF fails THEN disk ELSE [exists |-> TRUE, entries |-> cache]
    /\ compact' = [compact EXCEPT !.pc = "saved"]
    /\ UNCHANGED <<cache, capacity, now, threads, lock, history>>
    /\ UNCHANGED <<indexVars, operationVars, serviceVars, storeVars>>

\* _compact_persistence_file after _save_to_disk has returned: the backup
\* is removed if it exists
CompactRemoveBackup ==
    /\ compact.pc = "saved"
    /\ compact' = NoCompact
    /\ UNCHANGED <<cache, capacity, disk, now, threads, lock, history>>
    /\ UNCHANGED <<indexVars, operationVars, serviceVars, storeVars>>

\* one thread putting entries and the background thread compacting
CompactNext ==
    \/ \E args \in Puts : Put(1, args[1], args[2], args[3])
    \/ Release(1)
    \/ Save(1)
    \/ TickNow
    \/ CompactStart
    \/ \E fails \in BOOLEAN : CompactSave(fails)
    \/ CompactRemoveBackup

CompactSpec == CacheInit /\ [][CompactNext]_vars

\* C38: no step taken while the persistence file is compacted, or after it,
\* leaves the disk without a complete snapshot when there was one: the
\* persistence file or the backup exists.
C38_SnapshotSurvivesCompaction ==
    [][(disk.exists \/ compact.backup.exists) =>
           (disk'.exists \/ compact'.backup.exists)]_vars

\* C14: the number of entries of the cache is at most its capacity after
\* every operation, construction from a persistence file included.
C14_SizeWithinCapacity == Len(cache) <= capacity

\* C15: when putting a new key makes the cache exceed its capacity, exactly
\* one entry is evicted, the one whose last successful get or put is the
\* oldest of all entries; a put that does not exceed the capacity evicts
\* nothing.
C15_EvictsLeastRecentlyUsed ==
    \A t \in ThreadIds :
        (threads[t].pc = "locked" /\ threads[t].op = "put") =>
            IF history.overflow
            THEN history.evicted = {history.oldest}
            ELSE history.evicted = {}

\* a put into a full cache of two entries has evicted one of them
C15_Witness ==
    \E t \in ThreadIds :
        /\ threads[t].pc = "locked"
        /\ threads[t].op = "put"
        /\ history.overflow
        /\ capacity = 2
        /\ Len(cache) = 2
        /\ history.evicted # {}

\* C16: a get of an entry whose expiry time has passed reports absence and
\* the entry is removed from the cache.
C16_ExpiredEntryIsAbsent ==
    \A t \in ThreadIds :
        (threads[t].pc = "locked" /\ threads[t].op = "get"
            /\ threads[t].expired) =>
                /\ threads[t].result = None
                /\ threads[t].key \notin keys(cache)

\* a get has found its key in the cache, expired
C16_Witness ==
    \E t \in ThreadIds :
        /\ threads[t].pc = "locked"
        /\ threads[t].op = "get"
        /\ threads[t].expired

\* C17: every get returns the value of the latest put on its key, in the
\* order in which the calls acquired the mutex, or absence.
C17_GetReturnsLatestPut ==
    \A t \in ThreadIds :
        (threads[t].pc = "locked" /\ threads[t].op = "get"
            /\ threads[t].result # None) =>
                threads[t].result = history.latest[threads[t].key]

\* a get returns the second value put under its key while the other thread
\* is still inside its put
C17_Witness ==
    \E t \in ThreadIds, u \in ThreadIds :
        /\ t # u
        /\ threads[t].pc = "locked"
        /\ threads[t].op = "get"
        /\ threads[t].result = "v2"
        /\ threads[u].pc = "saving"

\* ------------------------------------------------------ search_code_advanced
\* str(value) as str.format renders the arguments of the query key
str_bool(b) == IF b THEN "True" ELSE "False"
str_optional(o) == IF o.some THEN o.text ELSE "None"

\* search_code_advanced: query_key
query_key(r) ==
    r.pattern \o ":" \o str_bool(r.case_sensitive) \o ":"
        \o ToString(r.context_lines) \o ":" \o str_optional(r.file_pattern)
        \o ":" \o str_bool(r.fuzzy) \o ":" \o ToString(r.page)

\* the order in which the search tool reports the files
FileOrder == <<MainPy, HelperPy, ConfigJson, NotesTxt, DotEnvPy>>

\* the lines of a file that match a pattern: 45 lines of three files hold
\* TODO, three lines of two files hold def
MatchingLines(pattern, file) ==
    CASE pattern = "TODO" /\ file \in {MainPy, HelperPy} -> [i \in 1..20 |-> i]
      [] pattern = "TODO" /\ file = NotesTxt -> [i \in 1..5 |-> 2 * i]
      [] pattern = "def" /\ file = MainPy -> <<3, 9>>
      [] pattern = "def" /\ file = HelperPy -> <<4>>
      [] OTHER -> <<>>

\* the --glob filter of the search tool
fnmatch(file, glob) ==
    \/ glob = basename(file)
    \/ glob = "*" \o splitext(basename(file))

\* strategy.search_async: the files of the project with a matching line, in
\* the tool's order, each with its (line_number, line_content) pairs
search_async(fsv, r) ==
    LET searched(f) == /\ f \in DOMAIN fsv
                       /\ r.file_pattern.some => fnmatch(f, r.file_pattern.text)
                       /\ MatchingLines(r.pattern, f) # <<>>
        files == SelectSeq(FileOrder, searched)
    IN  [i \in 1..Len(files) |->
            [file_path |-> files[i],
             matches |-> [j \in 1..Len(MatchingLines(r.pattern, files[i])) |->
                            <<MatchingLines(r.pattern, files[i])[j], r.pattern>>]]]

\* paginate_results: the flat list of matches
RECURSIVE all_matches(_)
all_matches(results) ==
    IF results = <<>> THEN <<>>
    ELSE [j \in 1..Len(Head(results).matches) |->
             [file_path |-> Head(results).file_path,
              line_number |-> Head(results).matches[j][1],
              line_content |-> Head(results).matches[j][2]]]
         \o all_matches(Tail(results))

\* paginate_results: the matches of a page, back in the file-based structure
RECURSIVE paginated_results(_)
paginated_results(current_page_matches) ==
    IF current_page_matches = <<>> THEN <<>>
    ELSE LET before == paginated_results(
                           SubSeq(current_page_matches, 1,
                                  Len(current_page_matches) - 1))
             match == current_page_matches[Len(current_page_matches)]
             pair == <<match.line_number, match.line_content>>
             at == {i \in 1..Len(before) : before[i].file_path = match.file_path}
         IN  IF at = {}
             THEN Append(before, [file_path |-> match.file_path,
                                  matches |-> <<pair>>])
             ELSE [i \in 1..Len(before) |->
                     IF i \in at
                     THEN [before[i] EXCEPT !.matches = Append(@, pair)]
                     ELSE before[i]]

min(a, b) == IF a < b THEN a ELSE b

paginate_results_from_page(results, page, page_size) ==
    LET p  == IF page < 1 THEN 1 ELSE page
        ps == IF page_size < 1 THEN page_size_default ELSE page_size
        flat == all_matches(results)
        total_matches == Len(flat)
        total_pages == IF total_matches > 0
                       THEN (total_matches + ps - 1) \div ps ELSE 1
        start_idx == p * ps
        end_idx == min(start_idx + ps, total_matches)
    IN  [results |-> paginated_results(SubSeq(flat, start_idx + 1, end_idx)),
         pagination |-> [current_page |-> p, page_size |-> ps,
                         total_matches |-> total_matches,
                         total_pages |-> total_pages,
                         has_next |-> p < total_pages,
                         has_previous |-> p > 1]]

\* LazyContentManager.paginate_results
paginate_results(results, page, page_size) ==
    LET p  == IF page < 1 THEN 1 ELSE page
        ps == IF page_size < 1 THEN page_size_default ELSE page_size
        flat == all_matches(results)
        total_matches == Len(flat)
        total_pages == IF total_matches > 0
                       THEN (total_matches + ps - 1) \div ps ELSE 1
        start_idx == (p - 1) * ps
        end_idx == min(start_idx + ps, total_matches)
    IN  [results |-> paginated_results(SubSeq(flat, start_idx + 1, end_idx)),
         pagination |-> [current_page |-> p, page_size |-> ps,
                         total_matches |-> total_matches,
                         total_pages |-> total_pages,
                         has_next |-> p < total_pages,
                         has_previous |-> p > 1]]

\* LazyContentManager.__init__: query_cache_capacity
query_cache_capacity == 50
\* LazyContentManager.__init__: the age at which a cached result is stale
max_age_seconds == 3600

\* the position of a query in the cache, 0 if it is not cached
cached_at(qc, query) ==
    IF \E i \in 1..Len(qc) : qc[i].query = query
    THEN CHOOSE i \in 1..Len(qc) : qc[i].query = query ELSE 0

\* QueryCache.get: move_to_end on a hit
QueryCache_get(qc, query) ==
    IF cached_at(qc, query) = 0 THEN qc
    ELSE Append(SelectSeq(qc, LAMBDA e : e.query # query),
                qc[cached_at(qc, query)])

\* QueryCache.put: assign, move_to_end, pop the oldest above the capacity
QueryCache_put(qc, entry) ==
    LET assigned == Append(SelectSeq(qc, LAMBDA e : e.query # entry.query),
                           entry)
    IN  IF Len(assigned) > query_cache_capacity
        THEN Tail(assigned) ELSE assigned

\* search_code_advanced up to its suspension in strategy.search_async:
\* without a project it returns an error; a cached result is returned as
\* it is; otherwise the search starts.  cached_for records the arguments of
\* the search whose result was cached under the key.
SearchStart(r) ==
    LET key == query_key(r)
        at == cached_at(query_cache, key)
    IN  /\ search.pc = "idle"
        /\ IF base_path = ""
           THEN /\ search' = [NoSearch EXCEPT !.request = r,
                                              !.time = search.time]
                /\ UNCHANGED query_cache
           ELSE IF at # 0
           THEN /\ query_cache' = QueryCache_get(query_cache, key)
                /\ search' = [search EXCEPT
                      !.request = r, !.raw = <<>>, !.hit = TRUE,
                      !.response = query_cache[at].result,
                      !.cached_for = query_cache[at].cached_for]
           ELSE /\ search' = [search EXCEPT
                      !.pc = "awaiting", !.request = r, !.raw = <<>>,
                      !.hit = FALSE, !.response = [error |-> "none"],
                      !.cached_for = <<>>]
                /\ UNCHANGED query_cache
        /\ UNCHANGED <<indexVars, operationVars, cacheVars, storeVars>>
        /\ UNCHANGED <<multi, lazy, governor, access>>

\* search_code_advanced after the search: the result is paginated, cached
\* with a timestamp and returned; a failed search returns an error
SearchFinish(fails) ==
    LET r == search.request
        results == search_async(fs, r)
        page_of_results == paginate_results(results, r.page, r.page_size)
    IN  /\ search.pc = "awaiting"
        /\ IF fails
           THEN /\ search' = [search EXCEPT
                      !.pc = "idle", !.response = [error |-> "Search failed"]]
                /\ UNCHANGED query_cache
           ELSE /\ search' = [search EXCEPT
                      !.pc = "idle", !.raw = results,
                      !.response = page_of_results]
                /\ query_cache' = QueryCache_put(query_cache,
                      [query |-> query_key(r),
                       result |-> [results |-> page_of_results.results,
                                   pagination |-> page_of_results.pagination,
                                   timestamp |-> search.time],
                       cached_for |-> SearchedFor(r)])
        /\ UNCHANGED <<indexVars, operationVars, cacheVars, storeVars>>
        /\ UNCHANGED <<multi, lazy, governor, access>>

\* time.time() advances
SearchTick ==
    /\ search.time < MaxNow
    /\ search' = [search EXCEPT !.time = @ + 1]
    /\ UNCHANGED query_cache
    /\ UNCHANGED <<indexVars, operationVars, cacheVars, storeVars>>
    /\ UNCHANGED <<multi, lazy, governor, access>>

SearchNext ==
    \/ SetProjectPath
    \/ \E r \in Requests : SearchStart(r)
    \/ \E fails \in BOOLEAN : SearchFinish(fails)
    \/ SearchTick

SearchSpec == ServerIdle /\ [][SearchNext]_vars

\* C21: a search answered from the cache is answered with the result of a
\* search with the same pattern, case-sensitivity, context-lines, file glob,
\* fuzzy flag and page number.
C21_CachedResultIsForThisRequest ==
    search.hit => search.cached_for = SearchedFor(search.request)

\* C35: a search answered from the result cache returns the page (results
\* and pagination) that the same request, page size included, gets on a
\* cache miss.
C35_CachedPageIsTheRequestedPage ==
    LET r == search.request
        on_miss == paginate_results(search_async(fs, r), r.page, r.page_size)
    IN  search.hit =>
            /\ search.response.results = on_miss.results
            /\ search.response.pagination = on_miss.pagination

\* the flat matches of pages 1..n of a result
RECURSIVE PagesConcatenated(_, _, _)
PagesConcatenated(results, n, page_size) ==
    IF n = 0 THEN <<>>
    ELSE PagesConcatenated(results, n - 1, page_size)
         \o all_matches(paginate_results(results, n, page_size).results)

\* C22: for the result of a search and every page size, the pages
\* 1..total_pages, concatenated, are the unpaginated result (so they are
\* disjoint, in order and complete), and has_next is false exactly on the
\* last page; 45 matches at page size 20 have 3 pages, the last one of 5.
C22_PagesPartitionTheResult ==
    \A page_size \in PageSizes :
        LET results == search.raw
            total_pages == paginate_results(results, 1, page_size)
                               .pagination.total_pages
        IN  /\ PagesConcatenated(results, total_pages, page_size)
                  = all_matches(results)
            /\ \A k \in 1..total_pages :
                  paginate_results(results, k, page_size).pagination.has_next
                      = (k # total_pages)
            /\ (Len(all_matches(results)) = 45 /\ page_size = 20) =>
                  /\ total_pages = 3
                  /\ Len(all_matches(paginate_results(results, 3, 20).results)) = 5

\* the third page of 45 matches at page size 20 has been returned
C22_Witness ==
    /\ Len(all_matches(search.raw)) = 45
    /\ search.request.page = 3
    /\ search.request.page_size = page_size_default
    /\ "pagination" \in DOMAIN search.response
    /\ ~search.response.pagination.has_next
    /\ Len(all_matches(search.response.results)) = 5

\* ----------------------------------------------------- multi-pattern search
\* the entry of a pattern in the mapping: the result of its search, or
\* {"error": ...}
ResultOf(pattern) == [pattern |-> pattern, kind |-> "result"]
ErrorOf(pattern) == [pattern |-> pattern, kind |-> "error"]

\* results[pattern] = entry
assign(results, entry) ==
    {e \in results : e.pattern # entry.pattern} \cup {entry}

\* the call: the searches are submitted.  search_multiple creates a
\* ThreadPoolExecutor with max_workers = min(len(patterns), cpu_count),
\* which raises ValueError for the empty list.
MultiStart(api, patterns, outcomes) ==
    /\ multi.pc # "collecting"
    /\ Len(outcomes) = Len(patterns)
    /\ multi' = IF api = "search_multiple" /\ patterns = <<>>
                THEN [NoMulti EXCEPT !.pc = "raised", !.api = api,
                                     !.raised = "ValueError"]
                ELSE [NoMulti EXCEPT !.pc = "collecting", !.api = api,
                                     !.patterns = patterns,
                                     !.outcomes = outcomes,
                                     !.pending = DOMAIN patterns]
    /\ UNCHANGED <<indexVars, operationVars, cacheVars, storeVars>>
    /\ UNCHANGED <<searchVars, lazy, governor, access>>

collect_uncaught(m, i) ==
    LET pattern == m.patterns[i]
    IN  IF m.outcomes[i] = "ok"
        THEN [m EXCEPT !.pending = @ \ {i},
                       !.results = assign(@, ResultOf(pattern))]
        ELSE [m EXCEPT !.pc = "raised", !.raised = m.outcomes[i]]

\* one turn of the loop over as_completed: the entry of a finished search
\* is stored under its pattern.  concurrent.futures.CancelledError is an
\* Exception and is caught with the failures; asyncio.CancelledError is a
\* BaseException, passes `except Exception` and ends the call.
collect(m, i) ==
    LET pattern == m.patterns[i]
    IN  IF m.outcomes[i] = "ok"
        THEN [m EXCEPT !.pending = @ \ {i},
                       !.results = assign(@, ResultOf(pattern))]
        ELSE IF m.outcomes[i] = "fail" \/ m.api = "search_multiple"
        THEN [m EXCEPT !.pending = @ \ {i},
                       !.results = assign(@, ErrorOf(pattern))]
        ELSE [m EXCEPT !.pc = "raised", !.raised = "CancelledError"]

MultiCollect(i) ==
    /\ multi.pc = "collecting"
    /\ i \in multi.pending
    /\ multi' = collect(multi, i)
    /\ UNCHANGED <<indexVars, operationVars, cacheVars, storeVars>>
    /\ UNCHANGED <<searchVars, lazy, governor, access>>

\* return results
MultiReturn ==
    /\ multi.pc = "collecting"
    /\ multi.pending = {}
    /\ multi' = [multi EXCEPT !.pc = "returned"]
    /\ UNCHANGED <<indexVars, operationVars, cacheVars, storeVars>>
    /\ UNCHANGED <<searchVars, lazy, governor, access>>

MultiNext ==
    \/ \E api \in MultiApis, patterns \in PatternLists :
          \E outcomes \in [DOMAIN patterns -> SearchOutcomes] :
             MultiStart(api, patterns, outcomes)
    \/ \E i \in 1..MaxPatterns : MultiCollect(i)
    \/ MultiReturn

MultiSpec == ServerIdle /\ [][MultiNext]_vars

\* C23: a multi-pattern search returns a mapping whose keys are exactly the
\* requested patterns, for every list of patterns and whether the searches
\* succeed, fail or are cancelled.
C23_KeysAreThePatterns ==
    /\ multi.pc # "raised"
    /\ multi.pc = "returned" =>
          {e.pattern : e \in multi.results}
              = {multi.patterns[i] : i \in DOMAIN multi.patterns}

\* C24: a failed search leaves an error entry in the slot of its own
\* pattern: every search collected so far has its pattern in the mapping,
\* the entry of a pattern is the outcome of one of the searches for that
\* pattern, and a failure never ends the call.
C24_FailureStaysInItsSlot ==
    /\ multi.pc \in {"collecting", "returned"} =>
          \A i \in DOMAIN multi.patterns \ multi.pending :
              \E e \in multi.results :
                  /\ e.pattern = multi.patterns[i]
                  /\ \E j \in DOMAIN multi.patterns :
                        /\ multi.patterns[j] = e.pattern
                        /\ e.kind = IF multi.outcomes[j] = "ok"
                                    THEN "result" ELSE "error"
    /\ multi.pc = "raised" => multi.raised \in {"ValueError", "CancelledError"}

\* a call has returned one error entry next to one result
C24_Witness ==
    /\ multi.pc = "returned"
    /\ \E e \in multi.results : e.kind = "error"
    /\ \E e \in multi.results : e.kind = "result"
    /\ \E i \in DOMAIN multi.outcomes : multi.outcomes[i] = "fail"

\* ------------------------------------------------------ LazyContentManager
\* the holders whose content is loaded
loaded_files(lz) == {f \in HeldFiles : lz.holders[f].registered
                                        /\ lz.holders[f].loaded}

\* _enforce_memory_limits: the first path of _access_order whose holder is
\* loaded, None if there is none
oldest_path(lz) ==
    LET candidates == SelectSeq(lz.access_order,
                                LAMBDA f : f \in loaded_files(lz))
    IN  IF candidates = <<>> THEN <<None>> ELSE Head(candidates)

\* list.remove(path), then append(path)
accessed(order, f) == Append(SelectSeq(order, LAMBDA x : x # f), f)

\* the loaded holder that was handed out or read the longest ago
least_recently_accessed(lz) ==
    LET candidates == SelectSeq(lz.recency, LAMBDA f : f \in loaded_files(lz))
    IN  IF candidates = <<>> THEN <<None>> ELSE Head(candidates)

\* get_file_content(file_path): under the manager lock.  A path that has a
\* holder is moved to the end of _access_order and its holder returned; a
\* new holder is registered, appended, and the limit enforced.
GetFileContent(t, f) ==
    /\ lazy.readers[t].pc = "idle"
    /\ lazy.lock = 0
    /\ lazy' = IF lazy.holders[f].registered
               THEN [lazy EXCEPT
                       !.access_order = accessed(@, f),
                       !.recency = accessed(@, f)]
               ELSE [lazy EXCEPT
                       !.holders[f].registered = TRUE,
                       !.access_order = Append(@, f),
                       !.recency = accessed(@, f),
                       !.lock = t,
                       !.readers[t] = [IdleReader EXCEPT
                            !.pc = "enforcing", !.op = "get_file_content",
                            !.path = f]]
    /\ UNCHANGED <<indexVars, operationVars, cacheVars, storeVars>>
    /\ UNCHANGED <<searchVars, multi, governor, access>>

\* LazyFileContent.content of a holder the caller has: loaded content is
\* returned without a lock; otherwise the holder's lock is taken, the
\* content loaded (unless another thread has loaded it meanwhile) and the
\* manager notified with the lock still held
Content(t, f) ==
    /\ lazy.readers[t].pc = "idle"
    /\ lazy.holders[f].registered
    /\ IF lazy.holders[f].loaded
       THEN lazy' = [lazy EXCEPT !.recency = accessed(@, f)]
       ELSE /\ lazy.holders[f].lock = 0
            /\ lazy' = [lazy EXCEPT
                  !.holders[f].lock = t,
                  !.holders[f].loaded = TRUE,
                  !.recency = accessed(@, f),
                  !.readers[t] = [IdleReader EXCEPT
                       !.pc = "loaded", !.op = "content", !.path = f]]
    /\ UNCHANGED <<indexVars, operationVars, cacheVars, storeVars>>
    /\ UNCHANGED <<searchVars, multi, governor, access>>

\* _on_content_loaded: with self._lock
OnContentLoaded(t) ==
    /\ lazy.readers[t].pc = "loaded"
    /\ lazy.lock = 0
    /\ lazy' = [lazy EXCEPT !.lock = t, !.readers[t].pc = "enforcing"]
    /\ UNCHANGED <<indexVars, operationVars, cacheVars, storeVars>>
    /\ UNCHANGED <<searchVars, multi, governor, access>>

\* QueryCache.evict_stale_entries: the entries older than max_age_seconds
\* are deleted
evict_stale_entries(qc, current_time) ==
    SelectSeq(qc, LAMBDA e :
                    ~(current_time - e.result.timestamp > max_age_seconds))

\* _perform_cleanup of the background thread: stale search results are
\* evicted (compact_cache copies the cache as it is), then with self._lock
\* the limit is enforced
PerformCleanupStart(t) ==
    /\ lazy.readers[t].pc = "idle"
    /\ lazy.lock = 0
    /\ query_cache' = evict_stale_entries(query_cache, search.time)
    /\ lazy' = [lazy EXCEPT
          !.lock = t,
          !.readers[t] = [IdleReader EXCEPT
               !.pc = "enforcing", !.op = "_perform_cleanup"]]
    /\ UNCHANGED <<indexVars, operationVars, cacheVars, storeVars>>
    /\ UNCHANGED <<search, multi, governor, access>>

\* _enforce_memory_limits, the body of the loop: the oldest path is
\* unloaded and leaves _access_order
unload_oldest(lz) ==
    LET oldest == oldest_path(lz)
    IN  [lz EXCEPT
           !.holders[oldest].loaded = FALSE,
           !.access_order = SelectSeq(@, LAMBDA x : x # oldest),
           !.unloaded_oldest = oldest = least_recently_accessed(lz)]

\* _enforce_memory_limits, one turn of the loop with more holders loaded
\* than allowed: unload_content of the oldest path takes the holder's lock
\* (a Lock, not re-entrant), unloads, and the path leaves _access_order
EnforceUnload(t) ==
    LET oldest == oldest_path(lazy)
    IN  /\ lazy.readers[t].pc = "enforcing"
        /\ Cardinality(loaded_files(lazy)) > lazy.max_loaded_files
        /\ oldest # <<None>>
        /\ lazy.holders[oldest].lock = 0
        /\ lazy' = unload_oldest(lazy)
        /\ UNCHANGED <<indexVars, operationVars, cacheVars, storeVars>>
        /\ UNCHANGED <<searchVars, multi, governor, access>>

\* _enforce_memory_limits returns: the limit is met, or no loaded holder is
\* in _access_order; the locks are released
EnforceReturn(t) ==
    LET r == lazy.readers[t]
    IN  /\ r.pc = "enforcing"
        /\ \/ Cardinality(loaded_files(lazy)) <= lazy.max_loaded_files
           \/ oldest_path(lazy) = <<None>>
        /\ lazy' = [lazy EXCEPT
              !.lock = 0,
              !.holders = IF r.op = "content"
                          THEN [@ EXCEPT ![r.path].lock = 0] ELSE @,
              !.readers[t] = IdleReader]
        /\ UNCHANGED <<indexVars, operationVars, cacheVars, storeVars>>
        /\ UNCHANGED <<searchVars, multi, governor, access>>

\* unload_all: with self._lock, every holder is to be unloaded
UnloadAllStart(t) ==
    /\ lazy.readers[t].pc = "idle"
    /\ lazy.lock = 0
    /\ lazy' = [lazy EXCEPT
          !.lock = t,
          !.readers[t] = [IdleReader EXCEPT
               !.pc = "unloading", !.op = "unload_all",
               !.todo = {f \in HeldFiles : lazy.holders[f].registered}]]
    /\ UNCHANGED <<indexVars, operationVars, cacheVars, storeVars>>
    /\ UNCHANGED <<searchVars, multi, governor, access>>

\* unload_all: unload_content of the next holder, under the holder's lock
UnloadNext(t, f) ==
    /\ lazy.readers[t].pc = "unloading"
    /\ f \in lazy.readers[t].todo
    /\ lazy.holders[f].lock = 0
    /\ lazy' = [lazy EXCEPT
          !.holders[f].loaded = FALSE,
          !.readers[t].todo = @ \ {f}]
    /\ UNCHANGED <<indexVars, operationVars, cacheVars, storeVars>>
    /\ UNCHANGED <<searchVars, multi, governor, access>>

\* unload_all: _access_order.clear() and release
UnloadAllReturn(t) ==
    /\ lazy.readers[t].pc = "unloading"
    /\ lazy.readers[t].todo = {}
    /\ lazy' = [lazy EXCEPT
          !.access_order = <<>>, !.lock = 0, !.readers[t] = IdleReader]
    /\ UNCHANGED <<indexVars, operationVars, cacheVars, storeVars>>
    /\ UNCHANGED <<searchVars, multi, governor, access>>

LazyInit ==
    /\ IndexInit({})
    /\ OperationsIdle
    /\ global_handlers = FALSE
    /\ CacheIdle
    /\ StoresIdle
    /\ SearchIdle
    /\ multi = NoMulti
    /\ \E limit \in {1, 2} : lazy = [NoLazy EXCEPT !.max_loaded_files = limit]
    /\ governor = NoGovernor
    /\ access = NoAccess

LazyNext ==
    \/ \E t \in ThreadIds, f \in LazyFiles : GetFileContent(t, f)
    \/ \E t \in ThreadIds, f \in LazyFiles : Content(t, f)
    \/ \E t \in ThreadIds : OnContentLoaded(t)
    \/ \E t \in ThreadIds : PerformCleanupStart(t)
    \/ \E t \in ThreadIds : EnforceUnload(t)
    \/ \E t \in ThreadIds : EnforceReturn(t)
    \/ \E t \in ThreadIds : UnloadAllStart(t)
    \/ \E t \in ThreadIds, f \in LazyFiles : UnloadNext(t, f)
    \/ \E t \in ThreadIds : UnloadAllReturn(t)

LazySpec == LazyInit /\ [][LazyNext]_vars

\* C25: whenever no operation of the manager or of a holder is in progress,
\* at most max_loaded_files holders have their content loaded, and every
\* holder unloaded to enforce the limit was the least recently accessed of
\* the loaded ones.
C25_LoadedWithinLimit ==
    /\ (\A t \in ThreadIds : lazy.readers[t].pc = "idle") =>
          Cardinality(loaded_files(lazy)) <= lazy.max_loaded_files
    /\ lazy.unloaded_oldest

\* the thread whose lock thread t is waiting for (0 when t waits for none):
\* content waits for the manager's lock in _on_content_loaded with the
\* holder's lock held; _enforce_memory_limits and unload_all wait in
\* unload_content for the lock of the holder they unload, with the manager's
\* lock held
awaited_lock_owner(lz, t) ==
    LET r == lz.readers[t]
        over == Cardinality(loaded_files(lz)) > lz.max_loaded_files
        held == {f \in r.todo : lz.holders[f].lock # 0}
    IN  CASE r.pc = "loaded" -> lz.lock
          [] r.pc = "enforcing" /\ over /\ oldest_path(lz) # <<None>> ->
                lz.holders[oldest_path(lz)].lock
          [] r.pc = "unloading" /\ held # {} ->
                lz.holders[CHOOSE f \in held : TRUE].lock
          [] OTHER -> 0

\* C36: no thread waits for a lock it holds itself, and no two threads wait
\* for each other's locks, whatever the interleaving of content reads with
\* limit enforcement and unload_all.
C36_NoThreadWaitsForever ==
    \A t \in ThreadIds :
        LET u == awaited_lock_owner(lazy, t)
        IN  /\ u # t
            /\ u # 0 => awaited_lock_owner(lazy, u) # t

\* ----------------------------------------------------------- MemoryProfiler
\* the values of a sequence
Range(seq) == {seq[i] : i \in 1..Len(seq)}

\* get_memory_stats: the counts of loaded holders and of cached queries
get_memory_stats(lz, qc) ==
    [loaded_files |-> Cardinality(loaded_files(lz)),
     query_cache_size |-> Len(qc)]

\* take_snapshot(loaded_files, cached_queries) with the memory reading mb
take_snapshot(mb, n_loaded, n_cached) ==
    [process_memory_mb |-> mb, loaded_files |-> n_loaded,
     cached_queries |-> n_cached]

\* check_limits
check_limits(snapshot) ==
    [soft_limit |-> snapshot.process_memory_mb > memory_limits.soft_limit_mb,
     hard_limit |-> snapshot.process_memory_mb > memory_limits.hard_limit_mb,
     gc_threshold |->
        snapshot.process_memory_mb > memory_limits.gc_threshold_mb,
     spill_threshold |->
        snapshot.process_memory_mb > memory_limits.spill_threshold_mb,
     max_loaded_files |->
        snapshot.loaded_files > memory_limits.max_loaded_files,
     max_cached_queries |->
        snapshot.cached_queries > memory_limits.max_cached_queries]

\* enforce_limits: the callbacks it will call, in order.  One
\* MemoryAwareLazyContentManager is registered, so each list has one entry.
enforce_limits(snapshot) ==
    LET violations == check_limits(snapshot)
    IN  (IF violations.soft_limit \/ violations.max_loaded_files
            \/ violations.max_cached_queries
         THEN <<"cleanup">> ELSE <<>>)
        \o (IF violations.spill_threshold THEN <<"spill_to_disk">> ELSE <<>>)
        \o (IF violations.hard_limit
            THEN <<"handle_limit_exceeded">> ELSE <<>>)

\* the monitor thread after a callback of its pass has returned or raised
after_callback(g) ==
    [g EXCEPT !.todo = Tail(@),
              !.pc = IF Tail(g.todo) = <<>> THEN "idle" ELSE "hooks",
              !.cache_items = <<>>]

\* _trigger_cleanup, _trigger_spill, _trigger_limit_exceeded without the
\* try/except around the callback: an exception ends enforce_limits, and
\* monitor_loop logs it
_trigger_uncaught(g, callback, raises) ==
    IF raises
    THEN [g EXCEPT !.ran = Append(@, callback), !.propagated = TRUE,
                   !.todo = <<>>, !.pc = "idle", !.cache_items = <<>>]
    ELSE after_callback([g EXCEPT !.ran = Append(@, callback)])

\* _trigger_cleanup, _trigger_spill, _trigger_limit_exceeded: the callback
\* is called in a try/except Exception that logs the error, and the loop
\* goes on
_trigger(g, callback, raises) ==
    after_callback([g EXCEPT
        !.ran = Append(@, callback),
        !.logged = IF raises THEN @ \cup {callback} ELSE @])

\* MemoryAwareLazyContentManager.cleanup, the part under the manager's
\* lock: for i below half the number of loaded holders, the holder of
\* _access_order[i] is unloaded
cleanup(lz) ==
    LET files_to_unload == Cardinality(loaded_files(lz)) \div 2
        unloaded == {lz.access_order[i] :
                        i \in 1..min(files_to_unload, Len(lz.access_order))}
    IN  [lz EXCEPT !.holders = [f \in HeldFiles |->
            IF f \in unloaded /\ @[f].registered
            THEN [@[f] EXCEPT !.loaded = FALSE] ELSE @[f]]]

\* monitor_loop, one turn: take_snapshot() without arguments records 0
\* loaded files and 0 cached queries; enforce_limits decides the callbacks
MonitorPass(mb) ==
    LET snapshot == take_snapshot(mb, 0, 0)
        stats == get_memory_stats(lazy, query_cache)
        due == enforce_limits(snapshot)
    IN  /\ governor.profiler
        /\ governor.monitoring
        /\ governor.pc = "idle"
        /\ governor' = [governor EXCEPT
              !.pc = IF due = <<>> THEN "idle" ELSE "hooks",
              !.todo = due, !.due = due, !.ran = <<>>, !.logged = {},
              !.propagated = FALSE, !.spill = NoGovernor.spill,
              !.pass = [kind |-> "periodic",
                        loaded_files |-> stats.loaded_files,
                        cached_queries |-> stats.query_cache_size,
                        recorded |->
                           [loaded_files |-> snapshot.loaded_files,
                            cached_queries |-> snapshot.cached_queries],
                        cleanup |-> "cleanup" \in Range(due)]]
        /\ UNCHANGED <<indexVars, operationVars, cacheVars, storeVars>>
        /\ UNCHANGED <<searchVars, multi, lazy, access>>

\* the cleanup callback of the pass: half of the loaded holders are
\* unloaded and the query cache is cleared, unless the callback raises
CleanupCallback(raises) ==
    /\ governor.pc = "hooks"
    /\ Head(governor.todo) = "cleanup"
    /\ LocksFree(lazy)
    /\ IF raises
       THEN UNCHANGED <<lazy, query_cache>>
       ELSE /\ lazy' = cleanup(lazy)
            /\ query_cache' = <<>>
    /\ governor' = _trigger(governor, "cleanup", raises)
    /\ UNCHANGED <<indexVars, operationVars, cacheVars, storeVars>>
    /\ UNCHANGED <<search, multi, access>>

\* the spill callback, first half: cache_items = list(cache.items()); with
\* nothing cached the callback returns
SpillCopy ==
    /\ governor.pc = "hooks"
    /\ Head(governor.todo) = "spill_to_disk"
    /\ governor' = IF query_cache = <<>>
                   THEN _trigger(governor, "spill_to_disk", FALSE)
                   ELSE [governor EXCEPT !.pc = "spilling",
                                         !.cache_items = query_cache]
    /\ UNCHANGED <<indexVars, operationVars, cacheVars, storeVars>>
    /\ UNCHANGED <<searchVars, multi, lazy, access>>

\* the spill callback, second half: MemoryProfiler.spill_to_disk pickles
\* cache_items to query_cache_<int(time.time())>.pkl and, if that worked,
\* the query cache is cleared
SpillWrite(written) ==
    LET spill_key == search.time
        g == IF written
             THEN [governor EXCEPT
                     !.spill_files =
                        {file \in @ : file.key # spill_key}
                        \cup {[key |-> spill_key,
                               data |-> governor.cache_items]},
                     !.spilled_data = @ \cup {spill_key},
                     !.spill = [written |-> governor.cache_items,
                                removed |-> query_cache]]
             ELSE governor
    IN  /\ governor.pc = "spilling"
        /\ governor' = _trigger(g, "spill_to_disk", FALSE)
        /\ query_cache' = IF written THEN <<>> ELSE query_cache
        /\ UNCHANGED <<indexVars, operationVars, cacheVars, storeVars>>
        /\ UNCHANGED <<search, multi, lazy, access>>

\* the limit-exceeded callback: unload_all and the query cache is cleared,
\* unless the callback raises
LimitExceededCallback(raises) ==
    /\ governor.pc = "hooks"
    /\ Head(governor.todo) = "handle_limit_exceeded"
    /\ LocksFree(lazy)
    /\ IF raises
       THEN UNCHANGED <<lazy, query_cache>>
       ELSE /\ lazy' = unload_all(lazy)
            /\ query_cache' = <<>>
    /\ governor' = _trigger(governor, "handle_limit_exceeded", raises)
    /\ UNCHANGED <<indexVars, operationVars, cacheVars, storeVars>>
    /\ UNCHANGED <<search, multi, access>>

\* get_memory_profile: a snapshot with the current counts; nothing is
\* enforced
GetMemoryProfile(mb) ==
    LET stats == get_memory_stats(lazy, query_cache)
        snapshot == take_snapshot(mb, stats.loaded_files,
                                  stats.query_cache_size)
    IN  /\ governor.profiler
        /\ governor' = [governor EXCEPT
              !.pass = [kind |-> "get_memory_profile",
                        loaded_files |-> stats.loaded_files,
                        cached_queries |-> stats.query_cache_size,
                        recorded |->
                           [loaded_files |-> snapshot.loaded_files,
                            cached_queries |-> snapshot.cached_queries],
                        cleanup |-> FALSE]]
        /\ UNCHANGED <<indexVars, operationVars, cacheVars, storeVars>>
        /\ UNCHANGED <<searchVars, multi, lazy, access>>

\* trigger_memory_cleanup: memory_aware_manager.cleanup() whatever the
\* counts are, then a snapshot with the counts after the cleanup
TriggerMemoryCleanup(mb) ==
    LET stats_before == get_memory_stats(lazy, query_cache)
        stats_after == get_memory_stats(cleanup(lazy), <<>>)
        snapshot == take_snapshot(mb, stats_after.loaded_files,
                                  stats_after.query_cache_size)
    IN  /\ governor.profiler
        /\ LocksFree(lazy)
        /\ lazy' = cleanup(lazy)
        /\ query_cache' = <<>>
        /\ governor' = [governor EXCEPT
              !.pass = [kind |-> "trigger_memory_cleanup",
                        loaded_files |-> stats_before.loaded_files,
                        cached_queries |-> stats_before.query_cache_size,
                        recorded |->
                           [loaded_files |-> snapshot.loaded_files,
                            cached_queries |-> snapshot.cached_queries],
                        cleanup |-> TRUE]]
        /\ UNCHANGED <<indexVars, operationVars, cacheVars, storeVars>>
        /\ UNCHANGED <<search, multi, access>>

GovernorNext ==
    \/ SetProjectPath
    \/ \E r \in {q \in Requests : q.page_size = 2} : SearchStart(r)
    \/ SearchFinish(FALSE)
    \/ \E mb \in MemoryLevels : MonitorPass(mb)
    \/ \E raises \in BOOLEAN : CleanupCallback(raises)
    \/ SpillCopy
    \/ \E written \in BOOLEAN : SpillWrite(written)
    \/ \E raises \in BOOLEAN : LimitExceededCallback(raises)
    \/ \E mb \in MemoryLevels : GetMemoryProfile(mb)
    \/ \E mb \in MemoryLevels : TriggerMemoryCleanup(mb)
    \/ Restart

GovernorSpec == ServerIdle /\ [][GovernorNext]_vars

\* C26: when a governor pass, periodic or manually triggered, starts with
\* more files loaded than max_loaded_files or more queries cached than
\* max_cached_queries, its snapshot records the actual counts and the
\* cleanup hooks are fired.
C26_PassSeesComponentCaps ==
    (\/ governor.pass.loaded_files > memory_limits.max_loaded_files
     \/ governor.pass.cached_queries > memory_limits.max_cached_queries) =>
        /\ governor.pass.recorded.loaded_files = governor.pass.loaded_files
        /\ governor.pass.recorded.cached_queries
              = governor.pass.cached_queries
        /\ governor.pass.cleanup

\* C27: every entry that the last spill removed from the query cache is in
\* the spill file it wrote.
C27_SpillWritesWhatItClears ==
    \A i \in 1..Len(governor.spill.removed) :
        \E j \in 1..Len(governor.spill.written) :
            governor.spill.written[j] = governor.spill.removed[i]

spill_dir(pid) == <<"tmp", "code_index_mcp_spill">>

\* C29: the spill directory is private to the server process (two server
\* processes, 1 and 2, have different ones), and after the server has shut
\* down no spill file remains on disk.
C29_SpillFilesArePrivateAndRemoved ==
    /\ governor.profiler =>
          \A p, q \in {1, 2} : p # q => spill_dir(p) # spill_dir(q)
    /\ last.op = "restart" => governor.spill_files = {}

\* ------------------------------------------------------------- file access
\* os.path.isabs
isabs(p) == p.root = "/"

\* file_path[1] == ':'
has_drive(p) == p.root = "" /\ p.parts # <<>> /\ p.parts[1] = "C:"

\* os.path.normpath on the components: "." is dropped, ".." removes the
\* component before it, is dropped at the root and kept at the start of a
\* relative path
RECURSIVE collapse(_, _, _)
collapse(parts, done, absolute) ==
    IF parts = <<>> THEN done
    ELSE IF Head(parts) = "." THEN collapse(Tail(parts), done, absolute)
    ELSE IF Head(parts) # ".."
         THEN collapse(Tail(parts), Append(done, Head(parts)), absolute)
    ELSE IF done # <<>> /\ done[Len(done)] # ".."
         THEN collapse(Tail(parts), SubSeq(done, 1, Len(done) - 1), absolute)
    ELSE IF absolute THEN collapse(Tail(parts), done, absolute)
    ELSE collapse(Tail(parts), Append(done, ".."), absolute)

normpath(p) == [root |-> p.root, parts |-> collapse(p.parts, <<>>, isabs(p))]

\* norm_path.startswith(".."), to which the three tests of get_file_content
\* on a normalised path come down for the names used here
startswith_dotdot(p) == p.parts # <<>> /\ p.parts[1] = ".."

\* os.path.join(base_path, norm_path): an absolute second argument
\* replaces the first
os_path_join(base, p) == IF isabs(p) THEN p ELSE join(base, p.parts)

\* os.path.realpath: the symbolic links link and sibling of the project
\* are followed, and a path is written from the directory it lies in
realpath(p) ==
    IF p.root = Project /\ p.parts # <<>> /\ p.parts[1] = "link"
    THEN [root |-> "/etc", parts |-> Tail(p.parts)]
    ELSE IF p.root = Project /\ p.parts # <<>> /\ p.parts[1] = "sibling"
    THEN [root |-> "/proj2", parts |-> Tail(p.parts)]
    ELSE IF isabs(p) /\ p.parts # <<>> /\ p.parts[1] = "etc"
    THEN [root |-> "/etc", parts |-> Tail(p.parts)]
    ELSE p

\* real_full_path.startswith(real_base_path), a comparison of strings:
\* "/proj2/secret" starts with "/proj"
startswith(real_full_path, real_base_path) ==
    real_full_path.root \in {real_base_path.root, real_base_path.root \o "2"}

\* the file a full path leads to, if there is one: a file of the project,
\* /etc/passwd or /proj2/secret
file_at(fsv, full_path) ==
    LET real == realpath(full_path)
    IN  IF real \in {[root |-> "/etc", parts |-> <<"passwd">>],
                     [root |-> "/proj2", parts |-> <<"secret">>]}
           \/ (real.root = Project /\ real.parts \in DOMAIN fsv)
        THEN real ELSE NoRead

\* get_file_content (the resource): the checks before the file is loaded
get_file_content_rejects(base, file_path) ==
    LET norm_path == normpath(file_path)
        full_path == os_path_join(base, norm_path)
    IN  \/ base = ""
        \/ isabs(file_path) \/ has_drive(file_path)
        \/ startswith_dotdot(norm_path)
        \/ ~startswith(realpath(full_path), realpath(join(base, <<>>)))

\* get_file_summary: the checks before the file is loaded
get_file_summary_rejects(base, file_path) ==
    \/ base = ""
    \/ startswith_dotdot(normpath(file_path))

\* _enforce_memory_limits run by a thread that holds the lock of the holder
\* `held` (None for none) while every other lock is free: it cannot take
\* the lock of `held` again
RECURSIVE _enforce_memory_limits(_, _)
_enforce_memory_limits(lz, held) ==
    IF Cardinality(loaded_files(lz)) <= lz.max_loaded_files
       \/ oldest_path(lz) = <<None>>
    THEN [lazy |-> lz, blocked |-> FALSE]
    ELSE IF oldest_path(lz) = held THEN [lazy |-> lz, blocked |-> TRUE]
    ELSE _enforce_memory_limits(unload_oldest(lz), held)

\* lazy_content_manager.get_file_content(full_path) followed by .content,
\* with every lock free
load_content(lz, f) ==
    LET got == IF lz.holders[f].registered
               THEN [lazy |-> [lz EXCEPT !.access_order = accessed(@, f),
                                         !.recency = accessed(@, f)],
                     blocked |-> FALSE]
               ELSE _enforce_memory_limits(
                       [lz EXCEPT !.holders[f].registered = TRUE,
                                  !.access_order = Append(@, f),
                                  !.recency = accessed(@, f)], <<None>>)
    IN  IF got.lazy.holders[f].loaded THEN got
        ELSE _enforce_memory_limits(
                [got.lazy EXCEPT !.holders[f].loaded = TRUE], f)

\* a handler that takes a file path: it rejects the path or loads the
\* content through the manager.  A handler that waits for a lock its own
\* thread holds never returns.
read_file(lz, handler, rejects, file_path) ==
    LET full_path == os_path_join(base_path, normpath(file_path))
        key == IF full_path.root = Project THEN full_path.parts
               ELSE <<full_path.root>> \o full_path.parts
        loaded == load_content(lz, key)
    IN  IF rejects
        THEN [access |-> [pc |-> "done", handler |-> handler,
                          file_path |-> file_path, rejected |-> TRUE,
                          read |-> NoRead],
              lazy |-> lz]
        ELSE [access |-> [pc |-> IF loaded.blocked
                                 THEN "blocked" ELSE "done",
                          handler |-> handler,
                          file_path |-> file_path, rejected |-> FALSE,
                          read |-> file_at(fs, full_path)],
              lazy |-> loaded.lazy]

\* get_file_content, the files:// resource
ServerGetFileContent(file_path) ==
    LET returned == read_file(lazy, "get_file_content",
                       get_file_content_rejects(base_path, file_path),
                       file_path)
    IN  /\ access.pc # "blocked"
        /\ LocksFree(lazy)
        /\ access' = returned.access
        /\ lazy' = returned.lazy
        /\ UNCHANGED <<indexVars, operationVars, cacheVars, storeVars>>
        /\ UNCHANGED <<searchVars, multi, governor>>

\* get_file_summary
GetFileSummary(file_path) ==
    LET returned == read_file(lazy, "get_file_summary",
                       get_file_summary_rejects(base_path, file_path),
                       file_path)
    IN  /\ access.pc # "blocked"
        /\ LocksFree(lazy)
        /\ access' = returned.access
        /\ lazy' = returned.lazy
        /\ UNCHANGED <<indexVars, operationVars, cacheVars, storeVars>>
        /\ UNCHANGED <<searchVars, multi, governor>>

AccessNext ==
    \/ SetProjectPath
    \/ \E file_path \in FilePaths : ServerGetFileContent(file_path)
    \/ \E file_path \in FilePaths : GetFileSummary(file_path)

AccessSpec == ServerIdle /\ [][AccessNext]_vars

\* C30: a handler that was given a file path that is absolute, has a drive
\* letter, contains a ".." segment or resolves to a real path outside the
\* real path of the project root has rejected the path and read no file.
C30_UnsafePathIsRejected ==
    LET file_path == access.file_path
        unsafe == \/ isabs(file_path) \/ has_drive(file_path)
                  \/ ".." \in Range(file_path.parts)
                  \/ realpath(os_path_join(Project, file_path)).root
                        # realpath(join(Project, <<>>)).root
    IN  (access.pc = "done" /\ unsafe) =>
            (access.rejected /\ access.read = NoRead)

\* ------------------------------------------------------- FileChangeTracker
\* the version ids of the file_versions table
version_ids(ch) == {v.version_id : v \in ch.file_versions}

\* SQLiteStorage.insert_file_version.  The timestamp is the reading of the
\* clock when the version is stored; ids and readings are counted together.
insert_file_version(ch, version_id) ==
    [ch EXCEPT !.file_versions =
                  @ \cup {[version_id |-> version_id, timestamp |-> ch.ids]}]

\* the FOREIGN KEY clauses of file_diffs (_init_db), which SQLite tests only
\* on a connection whose foreign_keys setting is on
foreign_key_violated(ch, previous_version_id, current_version_id) ==
    /\ ch.foreign_keys
    /\ \/ current_version_id \notin version_ids(ch)
       \/ /\ previous_version_id # 0
          /\ previous_version_id \notin version_ids(ch)

\* SQLiteStorage.insert_file_diff: the row is inserted; an IntegrityError of
\* the INSERT is caught and the row is not stored
insert_file_diff(ch, diff_id, previous_version_id, current_version_id, operation_type) ==
    IF foreign_key_violated(ch, previous_version_id, current_version_id)
    THEN ch
    ELSE [ch EXCEPT !.file_diffs = @ \cup
            {[diff_id |-> diff_id,
              previous_version_id |-> previous_version_id,
              current_version_id |-> current_version_id,
              operation_type |-> operation_type,
              timestamp |-> ch.ids]}]

\* _generate_version_id: a new uuid
_generate_version_id(ch) == ch.ids + 1

\* IncrementalIndexer.update_file_metadata of the edited file: the entry of the path is
\* replaced by what get_file_metadata returns (mtime, size, hash and
\* last_checked: no 'current_version_id'), unless that is empty because the
\* file cannot be stat-ed
update_entry_metadata(ch) ==
    IF ch.exists
    THEN [ch EXCEPT !.file_metadata =
                       [present |-> TRUE, current_version_id |-> 0]]
    ELSE ch

\* _capture_pre_edit_state: the content of an existing file is stored as a
\* version whose id becomes the 'current_version_id' of the path's
\* metadata, and returned; None is returned for a missing file
_capture_pre_edit_state(ch) ==
    IF ch.exists
    THEN LET version_id == _generate_version_id(ch)
             stored == insert_file_version([ch EXCEPT !.ids = version_id],
                                           version_id)
         IN  [stored EXCEPT
                !.file_metadata = [present |-> TRUE,
                                   current_version_id |-> version_id],
                !.old_content = ch.content]
    ELSE [ch EXCEPT !.old_content = None]

\* _record_post_edit_state(file_path, old_content, new_content)
_record_post_edit_state(ch, old_content, new_content) ==
    LET current_version_id == _generate_version_id(ch)
        stored == insert_file_version(
                      [ch EXCEPT !.ids = current_version_id],
                      current_version_id)
        previous_version_id == ch.file_metadata.current_version_id
        operation_type == IF old_content = None THEN "create"
                          ELSE IF ~ch.exists THEN "delete" ELSE "edit"
        content == IF operation_type = "delete" THEN "" ELSE new_content
        diff_id == current_version_id + 1
        numbered == [stored EXCEPT !.ids = diff_id]
        diffed ==
            IF old_content # None /\ old_content # content
            THEN insert_file_diff(numbered, diff_id, previous_version_id,
                                  current_version_id, operation_type)
            ELSE IF old_content = None /\ content # ""
            THEN insert_file_diff(numbered, diff_id, 0, current_version_id,
                                  "create")
            ELSE IF /\ old_content \notin {None, ""}
                    /\ content = ""
                    /\ operation_type = "delete"
            THEN insert_file_diff(numbered, diff_id, previous_version_id,
                                  current_version_id, "delete")
            ELSE stored
    IN  update_entry_metadata(
            [diffed EXCEPT
                !.file_metadata = [present |-> TRUE,
                                   current_version_id |-> current_version_id]])

\* an edit session begins: the caller captures the state before its edit
CapturePreEditState ==
    /\ changes.pc = "idle"
    /\ changes.ids + 3 <= MaxIds
    /\ changes' = [_capture_pre_edit_state(changes) EXCEPT !.pc = "captured"]
    /\ UNCHANGED <<indexVars, operationVars, cacheVars, serviceVars>>
    /\ UNCHANGED <<settings, ignore>>

\* the caller writes the file
WriteEditedFile(new_content) ==
    /\ changes.pc = "captured"
    /\ changes' = [changes EXCEPT
          !.exists = TRUE, !.content = new_content,
          !.new_content = new_content, !.pc = "edited"]
    /\ UNCHANGED <<indexVars, operationVars, cacheVars, serviceVars>>
    /\ UNCHANGED <<settings, ignore>>

\* the caller deletes the file
DeleteEditedFile ==
    /\ changes.pc = "captured"
    /\ changes.exists
    /\ changes' = [changes EXCEPT
          !.exists = FALSE, !.content = "",
          !.new_content = "", !.pc = "edited"]
    /\ UNCHANGED <<indexVars, operationVars, cacheVars, serviceVars>>
    /\ UNCHANGED <<settings, ignore>>

\* the caller records the state after its edit, with the content that
\* _capture_pre_edit_state returned to it
RecordPostEditState ==
    /\ changes.pc = "edited"
    /\ changes' = [_record_post_edit_state(changes, changes.old_content,
                                           changes.new_content)
                      EXCEPT !.pc = "idle"]
    /\ UNCHANGED <<indexVars, operationVars, cacheVars, serviceVars>>
    /\ UNCHANGED <<settings, ignore>>

\* the indexer, shared with the tracker, indexes the file during an edit
\* session (_index_project_with_progress of server.py): update_file_metadata
IndexerUpdateFileMetadata ==
    /\ changes.pc # "idle"
    /\ changes.file_metadata.current_version_id # 0
    /\ changes' = update_entry_metadata(changes)
    /\ UNCHANGED <<indexVars, operationVars, cacheVars, serviceVars>>
    /\ UNCHANGED <<settings, ignore>>

ChangesInit ==
    /\ IndexInit({})
    /\ OperationsIdle
    /\ global_handlers = FALSE
    /\ CacheIdle
    /\ ServicesIdle
    /\ \E exists \in BOOLEAN, fk \in BOOLEAN :
          changes = [NoChanges EXCEPT !.exists = exists,
                                      !.foreign_keys = fk]
    /\ settings = NoSettings
    /\ ignore = NoIgnore

ChangesNext ==
    \/ CapturePreEditState
    \/ \E new_content \in Contents : WriteEditedFile(new_content)
    \/ DeleteEditedFile
    \/ RecordPostEditState
    \/ IndexerUpdateFileMetadata

ChangesSpec == ChangesInit /\ [][ChangesNext]_vars

\* C31: every Diff whose operation is edit or delete has a
\* previous-version-id that references an existing Version whose timestamp
\* is not later than the Diff's.
C31_EditDiffHasPreviousVersion ==
    \A d \in changes.file_diffs :
        d.operation_type \in {"edit", "delete"} =>
            \E v \in changes.file_versions :
                /\ v.version_id = d.previous_version_id
                /\ v.timestamp <= d.timestamp

\* ------------------------------------------------------------ SQLiteStorage
\* a caller of the storage stores a version under an id of its own
InsertFileVersion(version_id) ==
    /\ changes.ids < MaxInserts
    /\ version_id \notin version_ids(changes) \cup {0, 99}
    /\ changes' = insert_file_version([changes EXCEPT !.ids = @ + 1],
                                      version_id)
    /\ UNCHANGED <<indexVars, operationVars, cacheVars, serviceVars>>
    /\ UNCHANGED <<settings, ignore>>

\* a caller of the storage stores a diff between two version ids
InsertFileDiff(previous_version_id, current_version_id, operation_type) ==
    /\ changes.ids < MaxInserts
    /\ current_version_id # 0
    /\ changes' = insert_file_diff([changes EXCEPT !.ids = @ + 1],
                                   changes.ids + 1, previous_version_id,
                                   current_version_id, operation_type)
    /\ UNCHANGED <<indexVars, operationVars, cacheVars, serviceVars>>
    /\ UNCHANGED <<settings, ignore>>

StorageNext ==
    \/ \E version_id \in VersionIds : InsertFileVersion(version_id)
    \/ \E previous_version_id, current_version_id \in VersionIds,
          operation_type \in {"edit"} :
          InsertFileDiff(previous_version_id, current_version_id,
                         operation_type)

StorageSpec == ChangesInit /\ [][StorageNext]_vars

\* C32: the store holds no Diff whose current-version-id, or non-null
\* previous-version-id, references no existing Version: the insert of such
\* a Diff is rejected.
C32_DanglingDiffIsRejected ==
    \A d \in changes.file_diffs :
        /\ d.current_version_id \in version_ids(changes)
        /\ d.previous_version_id # 0 =>
               d.previous_version_id \in version_ids(changes)

\* ------------------------------------------------- OptimizedProjectSettings
\* dict.update(other)
update(d, other) ==
    [k \in DOMAIN d \cup DOMAIN other |->
        IF k \in DOMAIN other THEN other[k] ELSE d[k]]

\* SQLiteStorage.put of every item: INSERT OR REPLACE of the encoded text
\* with value_type 'text'
put_all(rows, items) ==
    update(rows, [k \in DOMAIN items |->
                     [value_blob |-> items[k], value_type |-> "text"]])

\* SQLiteStorage.items: the rows decoded
items_of(rows) == [k \in DOMAIN rows |-> rows[k].value_blob]

\* _init_storage_backend: with the 'sqlite' backend the storages are
\* SQLiteStorage objects; with any other backend, or when an exception is
\* raised on the way (the except branch), they are empty dicts.
\* self.storage_backend is assigned by __init__ and left as it is.
_init_storage_backend(storage_backend, raises) ==
    LET kind == IF storage_backend = "sqlite" /\ ~raises
                THEN "SQLiteStorage" ELSE "dict"
    IN  [NoSettings EXCEPT
           !.storage_backend = storage_backend,
           !.failed = raises,
           !.metadata_storage = [kind |-> kind, rows |-> EmptyDict],
           !.cache_storage = [kind |-> kind, rows |-> EmptyDict]]

\* save_metadata and save_cache on a storage: the 'sqlite' branch calls put
\* and flush, which a dict does not have (the AttributeError is caught and
\* printed); the other branch calls update
save_to(storage_backend, storage, items) ==
    IF storage_backend = "sqlite"
    THEN IF storage.kind = "SQLiteStorage"
         THEN [storage EXCEPT !.rows = put_all(@, items)]
         ELSE storage
    ELSE [storage EXCEPT !.rows = update(@, items)]

\* load_metadata and load_cache on a storage: the 'sqlite' branch iterates
\* over items(), which a dict has too; the other branch copies the dict
load_from(storage_backend, storage) ==
    IF storage_backend = "sqlite" /\ storage.kind = "SQLiteStorage"
    THEN items_of(storage.rows)
    ELSE storage.rows

\* save_metadata(metadata)
SaveMetadata(metadata) ==
    /\ settings' = [settings EXCEPT
          !.metadata_storage =
              save_to(settings.storage_backend, @, metadata),
          !.saved_metadata = update(@, metadata),
          !.last = [op |-> "save_metadata",
                    returned |-> EmptyDict]]
    /\ UNCHANGED <<indexVars, operationVars, cacheVars, serviceVars>>
    /\ UNCHANGED <<changes, ignore>>

\* load_metadata()
LoadMetadata ==
    /\ settings' = [settings EXCEPT
          !.last = [op |-> "load_metadata",
                    returned |-> load_from(settings.storage_backend,
                                           settings.metadata_storage)]]
    /\ UNCHANGED <<indexVars, operationVars, cacheVars, serviceVars>>
    /\ UNCHANGED <<changes, ignore>>

\* save_cache(content_cache)
SaveCache(content_cache) ==
    /\ settings' = [settings EXCEPT
          !.cache_storage =
              save_to(settings.storage_backend, @, content_cache),
          !.saved_cache = update(@, content_cache),
          !.last = [op |-> "save_cache",
                    returned |-> EmptyDict]]
    /\ UNCHANGED <<indexVars, operationVars, cacheVars, serviceVars>>
    /\ UNCHANGED <<changes, ignore>>

\* load_cache()
LoadCache ==
    /\ settings' = [settings EXCEPT
          !.last = [op |-> "load_cache",
                    returned |-> load_from(settings.storage_backend,
                                           settings.cache_storage)]]
    /\ UNCHANGED <<indexVars, operationVars, cacheVars, serviceVars>>
    /\ UNCHANGED <<changes, ignore>>

SettingsInit ==
    /\ IndexInit({})
    /\ OperationsIdle
    /\ global_handlers = FALSE
    /\ CacheIdle
    /\ ServicesIdle
    /\ changes = NoChanges
    /\ \E storage_backend \in {"sqlite", "memory"}, raises \in BOOLEAN :
          settings = _init_storage_backend(storage_backend, raises)
    /\ ignore = NoIgnore

SettingsNext ==
    \/ \E metadata \in Dicts : SaveMetadata(metadata)
    \/ LoadMetadata
    \/ \E content_cache \in Dicts : SaveCache(content_cache)
    \/ LoadCache

SettingsSpec == SettingsInit /\ [][SettingsNext]_vars

\* C33: when the persistent store could not be initialised, a load returns
\* what the saves before it were given (no save or load raises: each
\* catches its exceptions).
C33_FallbackKeepsWhatIsSaved ==
    settings.failed =>
        /\ settings.last.op = "load_metadata" =>
               settings.last.returned = settings.saved_metadata
        /\ settings.last.op = "load_cache" =>
               settings.last.returned = settings.saved_cache

\* ------------------------------------------------------ IgnorePatternMatcher
\* DEFAULT_EXCLUDES: those of its patterns that match a name of IgnorePaths
\* (the set has no negated pattern; _load_default_patterns puts it first)
DEFAULT_EXCLUDES == <<<<"build">>, <<"*.log">>>>

\* re.IGNORECASE on the names used here
lower(name) == IF name = "Build" THEN "build" ELSE name

\* the regex of one name or glob against one component of a path: "*" is
\* [^/]*, every other character stands for itself
component_matches(glob, name) ==
    IF glob = "*.log" THEN name \in {"debug.log"}
    ELSE lower(glob) = lower(name)

\* _compile_patterns and _gitignore_to_regex of one line: the "!" is taken
\* off, then the trailing "/" and the leading "/"; the regex is
\* ^name or (^|/)name, followed by (/|$) or (/.*)?$
compile(line) ==
    LET negated == Head(line) = "!"
        pattern == IF negated THEN Tail(line) ELSE line
        is_dir_pattern == pattern[Len(pattern)] = "/"
        undirected == IF is_dir_pattern
                      THEN SubSeq(pattern, 1, Len(pattern) - 1)
                      ELSE pattern
        anchor_start == Head(undirected) = "/"
        name == IF anchor_start THEN Tail(undirected) ELSE undirected
    IN  [negated |-> negated, anchor_start |-> anchor_start,
         is_dir_pattern |-> is_dir_pattern, original |-> name[1]]

\* pattern.search(path) of a compiled pattern
regex_search(pattern_info, path) ==
    IF pattern_info.anchor_start
    THEN component_matches(pattern_info.original, path[1])
    ELSE \E i \in 1..Len(path) :
            component_matches(pattern_info.original, path[i])

\* compiled_patterns of a matcher with the given .gitignore lines
compiled_patterns(lines) ==
    [i \in 1..(Len(DEFAULT_EXCLUDES) + Len(lines)) |->
        compile((DEFAULT_EXCLUDES \o lines)[i])]

\* the loop of should_ignore over the compiled patterns
RECURSIVE ignore_loop(_, _, _)
ignore_loop(compiled, path, decided) ==
    IF compiled = <<>> THEN decided
    ELSE ignore_loop(Tail(compiled), path,
                     IF regex_search(Head(compiled), path)
                     THEN ~Head(compiled).negated ELSE decided)

\* should_ignore(path)
should_ignore(lines, path) ==
    ignore_loop(compiled_patterns(lines), path, FALSE)

\* should_ignore_directory(dir_path): the names of ignore_dirs and
\* allowed_dotdirs that IgnorePaths use
should_ignore_directory(lines, dir_path) ==
    LET dir_name == dir_path[Len(dir_path)]
    IN  IF should_ignore(lines, dir_path) THEN TRUE
        ELSE IF dir_name \in {"build", ".git", "__pycache__"} THEN TRUE
        ELSE dir_name \in {".cache"}

ShouldIgnore(path) ==
    /\ ignore' = [ignore EXCEPT
          !.last = [op |-> "should_ignore", path |-> path,
                    result |-> should_ignore(ignore.patterns, path)]]
    /\ UNCHANGED <<indexVars, operationVars, cacheVars, serviceVars>>
    /\ UNCHANGED <<changes, settings>>

ShouldIgnoreDirectory(dir_path) ==
    /\ ignore' = [ignore EXCEPT
          !.last = [op |-> "should_ignore_directory", path |-> dir_path,
                    result |-> should_ignore_directory(ignore.patterns,
                                                       dir_path)]]
    /\ UNCHANGED <<indexVars, operationVars, cacheVars, serviceVars>>
    /\ UNCHANGED <<changes, settings>>

IgnoreInit ==
    /\ IndexInit({})
    /\ OperationsIdle
    /\ global_handlers = FALSE
    /\ CacheIdle
    /\ ServicesIdle
    /\ changes = NoChanges
    /\ settings = NoSettings
    /\ \E n \in 0..MaxIgnoreLines : \E lines \in [1..n -> IgnoreLines] :
          ignore = [NoIgnore EXCEPT !.patterns = lines]

IgnoreNext ==
    \/ \E path \in IgnorePaths : ShouldIgnore(path)
    \/ \E dir_path \in IgnorePaths \ {<<"logs", "debug.log">>} :
          ShouldIgnoreDirectory(dir_path)

IgnoreSpec == IgnoreInit /\ [][IgnoreNext]_vars

\* the decision of the last pattern that matches the path: ignored when it
\* is not a negation, not ignored when it is one or when no pattern matches
last_match_ignores(lines, path) ==
    LET compiled == compiled_patterns(lines)
        matching == {i \in 1..Len(compiled) :
                        regex_search(compiled[i], path)}
    IN  /\ matching # {}
        /\ ~compiled[CHOOSE i \in matching :
                        \A j \in matching : j <= i].negated

\* C34: should_ignore and should_ignore_directory both answer with the
\* decision of the last matching pattern, a negated pattern un-ignoring
\* the path.
C34_LastMatchingPatternDecides ==
    ignore.last.op # "none" =>
        ignore.last.result =
            last_match_ignores(ignore.patterns, ignore.last.path)

====
